---- MODULE Spec2Model ----
(***************************************************************************)
(* A model of go-interface-fuzzer: the type grammar and its rendering, the *)
(* special-comment parser, the reconciliation of wanted fuzzers with the   *)
(* interface declarations, and the code generator.                         *)
(*                                                                         *)
(* Go strings are sequences of one-character strings, so that prefix       *)
(* matching, delimiter stripping and name scanning are computed character  *)
(* by character, as the code computes them.                                *)
(***************************************************************************)
EXTENDS Naturals, Sequences, FiniteSets

VARIABLES
    \* type grammar round trip (interface.go ToString, wanted.go parseType)
    tyIn, rendered, parsed, tpc,
    \* parseKnownCorrect (wanted.go)
    kcLine, kcRest, kcName, kcReturnsValue, kcArgs, kcErr, kcpc,
    \* WantedFuzzerFromCommentGroup (wanted.go)
    group, lineIdx, fuzzing, fuzzer, fuzzers, groupErr, logErr, gpc,
    \* reconcileFuzzers (main.go)
    interfaces, wanteds, wantedIdx, recFuzzers, recErrs, rpc,
    \* CodeGen (codegen.go)
    options, imports, cgFuzzers, cgIdx, code, errs, cgpc,
    \* MakeTypeGenerator (codegen.go)
    tgFuzzer, tgVar, tgTy, tgResult, tgpc,
    \* MakeValueComparison (codegen.go)
    vcFuzzer, vcExpected, vcActual, vcTy, vcResult, vcpc,
    \* TypeListNames (codegen.go)
    nmFunction, nmArgs, nmExpected, nmActual, nmpc,
    \* a run of the generated Fuzz<Name>With (withReferenceTemplate)
    runFuzzer, runInvariants, maxops, runI, actionToPerform, runArgs,
    runExpected, runActual, state, runPos, runLog, runResult, runpc,
    \* the pipeline of main for one comment group, and a run of the generated Fuzz<Name>
    pipeGroup, pipeInterfaces, pipeWanteds, werrs, pipeFuzzers, ferrs, pipeCode,
    cerrs, drvScope, drvLog, drvPassed, ppc,
    \* WantedFuzzersFromAST (wanted.go)
    astDoc, astComments, astIdx, astWanteds, astErrs, astpc,
    \* parseLine on a "@comparison:" line (wanted.go)
    cmpPayload, cmpFuzzer, cmpErr, cmppc,
    \* parseType on a unary type followed by further input (wanted.go)
    utType, utTail, utParsed, utpc,
    \* matchPrefix and matchDelims on built strings (strings.go)
    strPref, strSuff, numL, numR, strOut, strOk, spc

varsType == <<tyIn, rendered, parsed, tpc>>
varsKC == <<kcLine, kcRest, kcName, kcReturnsValue, kcArgs, kcErr, kcpc>>
varsGroup == <<group, lineIdx, fuzzing, fuzzer, fuzzers, groupErr, logErr, gpc>>
varsRec == <<interfaces, wanteds, wantedIdx, recFuzzers, recErrs, rpc>>
varsCG == <<options, imports, cgFuzzers, cgIdx, code, errs, cgpc>>
varsTG == <<tgFuzzer, tgVar, tgTy, tgResult, tgpc>>
varsVC == <<vcFuzzer, vcExpected, vcActual, vcTy, vcResult, vcpc>>
varsNames == <<nmFunction, nmArgs, nmExpected, nmActual, nmpc>>
varsRun ==
    <<runFuzzer, runInvariants, maxops, runI, actionToPerform, runArgs,
      runExpected, runActual, state, runPos, runLog, runResult, runpc>>
varsPipe ==
    <<pipeGroup, pipeInterfaces, pipeWanteds, werrs, pipeFuzzers, ferrs,
      pipeCode, cerrs, drvScope, drvLog, drvPassed, ppc>>
varsAST == <<astDoc, astComments, astIdx, astWanteds, astErrs, astpc>>
varsCmp == <<cmpPayload, cmpFuzzer, cmpErr, cmppc>>
varsUT == <<utType, utTail, utParsed, utpc>>
varsStr == <<strPref, strSuff, numL, numR, strOut, strOk, spc>>
vars == <<varsType, varsKC, varsGroup, varsRec, varsCG, varsTG, varsVC,
    varsNames, varsRun, varsPipe, varsAST, varsCmp, varsUT, varsStr>>

\* What an action of one component leaves alone: every other component.
othersType == <<varsKC, varsGroup, varsRec, varsCG, varsTG, varsVC,
    varsNames, varsRun, varsPipe, varsAST, varsCmp, varsUT, varsStr>>
othersKC == <<varsType, varsGroup, varsRec, varsCG, varsTG, varsVC,
    varsNames, varsRun, varsPipe, varsAST, varsCmp, varsUT, varsStr>>
othersGroup == <<varsType, varsKC, varsRec, varsCG, varsTG, varsVC,
    varsNames, varsRun, varsPipe, varsAST, varsCmp, varsUT, varsStr>>
othersRec == <<varsType, varsKC, varsGroup, varsCG, varsTG, varsVC,
    varsNames, varsRun, varsPipe, varsAST, varsCmp, varsUT, varsStr>>
othersCG == <<varsType, varsKC, varsGroup, varsRec, varsTG, varsVC,
    varsNames, varsRun, varsPipe, varsAST, varsCmp, varsUT, varsStr>>
othersTG == <<varsType, varsKC, varsGroup, varsRec, varsCG, varsVC,
    varsNames, varsRun, varsPipe, varsAST, varsCmp, varsUT, varsStr>>
othersVC == <<varsType, varsKC, varsGroup, varsRec, varsCG, varsTG,
    varsNames, varsRun, varsPipe, varsAST, varsCmp, varsUT, varsStr>>
othersNames == <<varsType, varsKC, varsGroup, varsRec, varsCG, varsTG,
    varsVC, varsRun, varsPipe, varsAST, varsCmp, varsUT, varsStr>>
othersRun == <<varsType, varsKC, varsGroup, varsRec, varsCG, varsTG, varsVC,
    varsNames, varsPipe, varsAST, varsCmp, varsUT, varsStr>>
othersPipe == <<varsType, varsKC, varsGroup, varsRec, varsCG, varsTG, varsVC,
    varsNames, varsRun, varsAST, varsCmp, varsUT, varsStr>>
othersAST == <<varsType, varsKC, varsGroup, varsRec, varsCG, varsTG, varsVC,
    varsNames, varsRun, varsPipe, varsCmp, varsUT, varsStr>>
othersCmp == <<varsType, varsKC, varsGroup, varsRec, varsCG, varsTG, varsVC,
    varsNames, varsRun, varsPipe, varsAST, varsUT, varsStr>>
othersUT == <<varsType, varsKC, varsGroup, varsRec, varsCG, varsTG, varsVC,
    varsNames, varsRun, varsPipe, varsAST, varsCmp, varsStr>>
othersStr == <<varsType, varsKC, varsGroup, varsRec, varsCG, varsTG, varsVC,
    varsNames, varsRun, varsPipe, varsAST, varsCmp, varsUT>>

(***************************************************************************)
(* Bounds of the model.                                                    *)
(***************************************************************************)
MaxDepth == 2

(***************************************************************************)
(* Strings.                                                                *)
(***************************************************************************)
\* The characters parseName accepts.
NameChars ==
    {"q","w","e","r","t","y","u","i","o","p","a","s","d","f","g","h","j","k",
     "l","z","x","c","v","b","n","m","Q","W","E","R","T","Y","U","I","O","P",
     "A","S","D","F","G","H","J","K","L","Z","X","C","V","B","N","M","1","2",
     "3","4","5","6","7","8","9","0","_","-"}

IsSpace(c) == c \in {" ", "\t"}

HasPrefix(s, p) == Len(s) >= Len(p) /\ SubSeq(s, 1, Len(p)) = p

HasSuffix(s, p) == Len(s) >= Len(p) /\ SubSeq(s, Len(s) - Len(p) + 1, Len(s)) = p

TrimPrefix(s, p) == IF HasPrefix(s, p) THEN SubSeq(s, Len(p) + 1, Len(s)) ELSE s

TrimSuffix(s, p) == IF HasSuffix(s, p) THEN SubSeq(s, 1, Len(s) - Len(p)) ELSE s

RECURSIVE TrimLeftSpace(_)
TrimLeftSpace(s) ==
    IF s # <<>> /\ IsSpace(s[1]) THEN TrimLeftSpace(Tail(s)) ELSE s

RECURSIVE TrimLeftBlank(_)
TrimLeftBlank(s) ==
    IF s # <<>> /\ s[1] = " " THEN TrimLeftBlank(Tail(s)) ELSE s

RECURSIVE removePrefix(_, _)
removePrefix(s, pref) ==
    IF HasPrefix(s, pref)
    THEN LET r == removePrefix(TrimPrefix(s, pref), pref)
         IN  [s |-> r.s, count |-> r.count + 1]
    ELSE [s |-> s, count |-> 0]

RECURSIVE removeSuffix(_, _)
removeSuffix(s, suff) ==
    IF HasSuffix(s, suff)
    THEN LET r == removeSuffix(TrimSuffix(s, suff), suff)
         IN  [s |-> r.s, count |-> r.count + 1]
    ELSE [s |-> s, count |-> 0]

\* A variant that removes the closing delimiter once only.
matchDelimsOneSuffix(s, pref, suff) ==
    LET s1 == removePrefix(s, pref)
    IN  [s |-> TrimSuffix(s1.s, suff),
         ok |-> s1.count = (IF HasSuffix(s1.s, suff) THEN 1 ELSE 0)]

matchDelims(s, pref, suff) ==
    LET s1 == removePrefix(s, pref)
        s2 == removeSuffix(s1.s, suff)
    IN  [s |-> s2.s, ok |-> s1.count = s2.count]

matchPrefix(s, prefix) ==
    IF HasPrefix(s, prefix)
    THEN [rest |-> TrimLeftSpace(TrimPrefix(s, prefix)), ok |-> TRUE]
    ELSE [rest |-> s, ok |-> FALSE]

RECURSIVE takeWhileIn(_, _)
takeWhileIn(s, allowed) ==
    IF s = <<>> \/ s[1] \notin allowed
    THEN [pre |-> <<>>, suf |-> s]
    ELSE LET r == takeWhileIn(Tail(s), allowed)
         IN  [pre |-> <<s[1]>> \o r.pre, suf |-> r.suf]

parseName(s) ==
    LET t == takeWhileIn(s, NameChars)
    IN  [name |-> t.pre, rest |-> TrimLeftSpace(t.suf)]

(***************************************************************************)
(* Types and their rendering.                                              *)
(***************************************************************************)
NilType == [k |-> "Nil"]
BasicType(name) == [k |-> "Basic", name |-> name]
ArrayType(t) == [k |-> "Array", elem |-> t]
ChanType(t) == [k |-> "Chan", elem |-> t]
MapType(key, val) == [k |-> "Map", key |-> key, val |-> val]
PointerType(t) == [k |-> "Pointer", elem |-> t]
QualifiedType(pkg, t) == [k |-> "Qualified", pkg |-> pkg, ty |-> t]

\* A variant that renders a qualified type without its package.
RECURSIVE ToStringUnqualified(_)
ToStringUnqualified(ty) ==
    CASE ty.k = "Nil" -> <<>>
      [] ty.k = "Basic" -> ty.name
      [] ty.k = "Array" -> <<"[", "]", "(">> \o ToStringUnqualified(ty.elem) \o <<")">>
      [] ty.k = "Chan" ->
            <<"c", "h", "a", "n", " ", "(">> \o ToStringUnqualified(ty.elem) \o <<")">>
      [] ty.k = "Map" ->
            <<"m", "a", "p", "[">> \o ToStringUnqualified(ty.key) \o <<"]", "(">>
                \o ToStringUnqualified(ty.val) \o <<")">>
      [] ty.k = "Pointer" -> <<"*", "(">> \o ToStringUnqualified(ty.elem) \o <<")">>
      [] ty.k = "Qualified" -> ToStringUnqualified(ty.ty)

RECURSIVE ToString(_)
ToString(ty) ==
    CASE ty.k = "Nil" -> <<>>
      [] ty.k = "Basic" -> ty.name
      [] ty.k = "Array" -> <<"[", "]", "(">> \o ToString(ty.elem) \o <<")">>
      [] ty.k = "Chan" ->
            <<"c", "h", "a", "n", " ", "(">> \o ToString(ty.elem) \o <<")">>
      [] ty.k = "Map" ->
            <<"m", "a", "p", "[">> \o ToString(ty.key) \o <<"]", "(">>
                \o ToString(ty.val) \o <<")">>
      [] ty.k = "Pointer" -> <<"*", "(">> \o ToString(ty.elem) \o <<")">>
      [] ty.k = "Qualified" -> ty.pkg \o <<".">> \o ToString(ty.ty)

(***************************************************************************)
(* The type parser.  A type constructor closure of the code is a record    *)
(* con naming the constructor (and, for a map, the key type already        *)
(* parsed); tycon applies it.                                              *)
(***************************************************************************)
NoErr == "nil"
ErrParens == "mismatched parentheses"

tycon(con, t) ==
    CASE con.k = "Array" -> ArrayType(t)
      [] con.k = "Chan" -> ChanType(t)
      [] con.k = "Map" -> MapType(con.key, t)
      [] con.k = "Pointer" -> PointerType(t)

RECURSIVE parseType(_)
RECURSIVE parseUnaryType(_, _, _)

parseUnaryType(con, s, orig) ==
    LET noSpaces == TrimLeftBlank(s)
        d == matchDelims(noSpaces, <<"(">>, <<")">>)
    IN  IF d.ok
        THEN LET r == parseType(d.s)
             IN  [ty |-> tycon(con, r.ty), rest |-> r.rest, err |-> r.err]
        ELSE [ty |-> tycon(con, NilType), rest |-> <<>>, err |-> ErrParens]

\* The tail of parseType: the type in (possibly 0) parentheses.
parseParenType(s) ==
    LET d == matchDelims(s, <<"(">>, <<")">>)
    IN  IF d.ok
        THEN IF d.s = s
             THEN LET n == parseName(s)
                      suff == TrimLeftSpace(n.rest)
                  IN  IF Len(suff) > 0 /\ suff[1] = "."
                      THEN LET n2 == parseName(Tail(suff))
                           IN  [ty |-> QualifiedType(n.name, BasicType(n2.name)),
                                rest |-> TrimLeftSpace(n2.rest),
                                err |-> NoErr]
                      ELSE [ty |-> BasicType(n.name), rest |-> suff, err |-> NoErr]
             ELSE parseType(d.s)
        ELSE [ty |-> NilType, rest |-> s, err |-> ErrParens]

parseType(s) ==
    LET arr == matchPrefix(s, <<"[", "]">>)
        chn == matchPrefix(s, <<"c", "h", "a", "n">>)
        map == matchPrefix(s, <<"m", "a", "p", "[">>)
        ptr == matchPrefix(s, <<"*">>)
    IN  IF arr.ok THEN parseUnaryType([k |-> "Array"], arr.rest, s)
        ELSE IF chn.ok THEN parseUnaryType([k |-> "Chan"], chn.rest, s)
        ELSE LET key == IF map.ok THEN parseType(map.rest)
                        ELSE [ty |-> NilType, rest |-> <<>>, err |-> ErrParens]
                 close == matchPrefix(key.rest, <<"]">>)
             IN  IF map.ok /\ close.ok /\ key.err = NoErr
                 THEN parseUnaryType([k |-> "Map", key |-> key.ty],
                                     Tail(key.rest), s)
                 ELSE IF ptr.ok
                      THEN parseUnaryType([k |-> "Pointer"], ptr.rest, s)
                      ELSE parseParenType(s)

(***************************************************************************)
(* The idle value of each group of variables: a specification that does    *)
(* not exercise a component leaves it idle.                                *)
(***************************************************************************)
NoResult == [ty |-> NilType, rest |-> <<>>, err |-> NoErr]

\* The zero values of the code's structures.
ZeroFunction == [Name |-> <<>>, Parameters |-> <<>>, Returns |-> <<>>]

ZeroWantedFuzzer ==
    [InterfaceName |-> <<>>, Reference |-> ZeroFunction, ReturnsValue |-> FALSE,
     Comparison |-> <<>>, Generator |-> <<>>, GeneratorState |-> <<>>]

ZeroInterface == [Name |-> <<>>, Functions |-> <<>>]

ZeroFuzzer == [Interface |-> ZeroInterface, Wanted |-> ZeroWantedFuzzer]

ZeroOptions ==
    [Complete |-> FALSE, PackageName |-> <<>>, NoTestCase |-> FALSE,
     NoDefaultFuzz |-> FALSE]

\* The code generator's strings are sequences of tokens (see below); nil is
\* the error of a call that succeeded.
nil == <<>>

NoCode == [code |-> <<>>, err |-> nil]

IdleType == tyIn = NilType /\ rendered = <<>> /\ parsed = NoResult /\ tpc = "idle"

IdleKC ==
    /\ kcLine = <<>> /\ kcRest = <<>> /\ kcName = <<>> /\ kcReturnsValue = FALSE
    /\ kcArgs = <<>> /\ kcErr = NoErr /\ kcpc = "idle"

IdleGroup ==
    /\ group = <<>> /\ lineIdx = 0 /\ fuzzing = FALSE /\ fuzzer = ZeroWantedFuzzer
    /\ fuzzers = <<>> /\ groupErr = NoErr /\ logErr = FALSE /\ gpc = "idle"

IdleRec ==
    /\ interfaces = <<>> /\ wanteds = <<>> /\ wantedIdx = 0 /\ recFuzzers = <<>>
    /\ recErrs = <<>> /\ rpc = "idle"

IdleCG ==
    /\ options = ZeroOptions /\ imports = <<>> /\ cgFuzzers = <<>> /\ cgIdx = 0
    /\ code = <<>> /\ errs = <<>> /\ cgpc = "idle"

IdleTG ==
    /\ tgFuzzer = ZeroFuzzer /\ tgVar = <<>> /\ tgTy = NilType /\ tgResult = NoCode
    /\ tgpc = "idle"

IdleVC ==
    /\ vcFuzzer = ZeroFuzzer /\ vcExpected = <<>> /\ vcActual = <<>>
    /\ vcTy = NilType /\ vcResult = NoCode /\ vcpc = "idle"

IdleNames ==
    /\ nmFunction = ZeroFunction /\ nmArgs = <<>> /\ nmExpected = <<>>
    /\ nmActual = <<>> /\ nmpc = "idle"

IdleRun ==
    /\ runFuzzer = ZeroFuzzer /\ runInvariants = <<>> /\ maxops = 0 /\ runI = 0
    /\ actionToPerform = 0 /\ runArgs = <<>> /\ runExpected = <<>>
    /\ runActual = <<>> /\ state = <<>> /\ runPos = 0 /\ runLog = <<>>
    /\ runResult = nil /\ runpc = "idle"

IdlePipe ==
    /\ pipeGroup = <<>> /\ pipeInterfaces = <<>> /\ pipeWanteds = <<>>
    /\ werrs = <<>> /\ pipeFuzzers = <<>> /\ ferrs = <<>> /\ pipeCode = <<>>
    /\ cerrs = <<>> /\ drvScope = <<>> /\ drvLog = <<>> /\ drvPassed = <<>>
    /\ ppc = "idle"

IdleAST ==
    /\ astDoc = <<>> /\ astComments = <<>> /\ astIdx = 0 /\ astWanteds = <<>>
    /\ astErrs = <<>> /\ astpc = "idle"

IdleCmp ==
    /\ cmpPayload = <<>> /\ cmpFuzzer = ZeroWantedFuzzer /\ cmpErr = NoErr
    /\ cmppc = "idle"

IdleUT ==
    /\ utType = NilType /\ utTail = <<>> /\ utParsed = NoResult /\ utpc = "idle"

IdleStr ==
    /\ strPref = <<>> /\ strSuff = <<>> /\ numL = 0 /\ numR = 0
    /\ strOut = <<>> /\ strOk = FALSE /\ spc = "idle"

(***************************************************************************)
(* Rendering a type and parsing the rendering back.                        *)
(***************************************************************************)
S_int == <<"i", "n", "t">>
S_T == <<"T">>
S_chans == <<"c", "h", "a", "n", "s">>
S_p == <<"p">>

TypeNames == {S_int, S_T, S_chans}
PackageNames == {S_p}

LeafTypes ==
    {BasicType(n) : n \in TypeNames}
        \cup {QualifiedType(p, BasicType(n)) : p \in PackageNames, n \in TypeNames}

WrapTypes(S) ==
    S \cup {ArrayType(t) : t \in S} \cup {ChanType(t) : t \in S}
      \cup {PointerType(t) : t \in S}
      \cup {MapType(key, t) : key \in LeafTypes, t \in S}

RECURSIVE TypesOfDepth(_)
TypesOfDepth(d) == IF d = 0 THEN LeafTypes ELSE WrapTypes(TypesOfDepth(d - 1))

InitType ==
    /\ tyIn \in TypesOfDepth(MaxDepth)
    /\ rendered = <<>>
    /\ parsed = NoResult
    /\ tpc = "start"

Render ==
    /\ tpc = "start"
    /\ rendered' = ToString(tyIn)
    /\ tpc' = "rendered"
    /\ UNCHANGED <<tyIn, parsed>>
    /\ UNCHANGED othersType

Parse ==
    /\ tpc = "rendered"
    /\ parsed' = parseType(rendered)
    /\ tpc' = "parsed"
    /\ UNCHANGED <<tyIn, rendered>>
    /\ UNCHANGED othersType

NextType == Render \/ Parse

InitSpecType ==
    InitType /\ IdleKC /\ IdleGroup /\ IdleRec /\ IdleCG /\ IdleTG /\ IdleVC
        /\ IdleNames
        /\ IdleRun
        /\ IdlePipe
        /\ IdleAST
        /\ IdleCmp
        /\ IdleUT
        /\ IdleStr

SpecType == InitSpecType /\ [][NextType]_vars

\* C1: parsing the canonical rendering of a type succeeds with an empty
\* remainder and renders back to the same string.
C1_RoundTrip ==
    tpc = "parsed" =>
        /\ parsed.err = NoErr
        /\ parsed.rest = <<>>
        /\ ToString(parsed.ty) = rendered

(***************************************************************************)
(* parseKnownCorrect, one action per step of the function: the checks and  *)
(* the name, then one action per iteration of the argument loop.           *)
(***************************************************************************)
MaxLen == 3

ErrEmptyArgument == "@known correct has empty argument"

PayloadChars == {"f", " ", "&", "(", ")", "[", "]", "*", "."}

RECURSIVE StringsUpTo(_, _)
StringsUpTo(chars, n) ==
    IF n = 0 THEN {<<>>}
    ELSE LET shorter == StringsUpTo(chars, n - 1)
         IN  shorter \cup {<<c>> \o t : c \in chars, t \in {u \in shorter : Len(u) = n - 1}}

\* A payload is what follows a directive's prefix in a trimmed line: it
\* neither begins nor ends with white space.
IsTrimmed(s) == s = <<>> \/ (~IsSpace(s[1]) /\ ~IsSpace(s[Len(s)]))

Payloads == {s \in StringsUpTo(PayloadChars, MaxLen) : IsTrimmed(s)}

\* The loop cannot make more productive iterations than the line has
\* characters; the model stops following it a few iterations later.
MaxIterations == MaxLen + 2

InitKC ==
    /\ kcLine \in Payloads
    /\ kcRest = <<>>
    /\ kcName = <<>>
    /\ kcReturnsValue = FALSE
    /\ kcArgs = <<>>
    /\ kcErr = NoErr
    /\ kcpc = "start"

KCEmpty ==
    /\ kcpc = "start"
    /\ Len(kcLine) = 0
    /\ kcErr' = ErrEmptyArgument
    /\ kcpc' = "done"
    /\ UNCHANGED <<kcLine, kcRest, kcName, kcReturnsValue, kcArgs>>
    /\ UNCHANGED othersKC

KCName ==
    /\ kcpc = "start"
    /\ Len(kcLine) # 0
    /\ LET amp == matchPrefix(kcLine, <<"&">>)
           n == parseName(amp.rest)
       IN  /\ kcReturnsValue' = amp.ok
           /\ kcName' = n.name
           /\ kcRest' = n.rest
    /\ kcpc' = "loop"
    /\ UNCHANGED <<kcLine, kcArgs, kcErr>>
    /\ UNCHANGED othersKC

KCArg ==
    /\ kcpc = "loop"
    /\ kcRest # <<>>
    /\ Len(kcArgs) < MaxIterations
    /\ LET r == parseType(kcRest)
       IN  IF r.err # NoErr
           THEN /\ kcErr' = r.err
                /\ kcReturnsValue' = FALSE
                /\ kcpc' = "done"
                /\ UNCHANGED <<kcRest, kcArgs>>
           ELSE /\ kcArgs' = Append(kcArgs, r.ty)
                /\ kcRest' = r.rest
                /\ UNCHANGED <<kcErr, kcReturnsValue, kcpc>>
    /\ UNCHANGED <<kcLine, kcName>>
    /\ UNCHANGED othersKC

KCReturn ==
    /\ kcpc = "loop"
    /\ kcRest = <<>>
    /\ kcpc' = "done"
    /\ UNCHANGED <<kcLine, kcRest, kcName, kcReturnsValue, kcArgs, kcErr>>
    /\ UNCHANGED othersKC

NextKC == KCEmpty \/ KCName \/ KCArg \/ KCReturn

InitSpecKC ==
    InitKC /\ IdleType /\ IdleGroup /\ IdleRec /\ IdleCG /\ IdleTG /\ IdleVC
        /\ IdleNames
        /\ IdleRun
        /\ IdlePipe
        /\ IdleAST
        /\ IdleCmp
        /\ IdleUT
        /\ IdleStr

SpecKC == InitSpecKC /\ [][NextKC]_vars

\* C3: every iteration of the argument loop of parseKnownCorrect makes
\* progress: it ends the loop or leaves a strictly shorter remainder.
C3_LoopProgress ==
    [][(kcpc = "loop" /\ kcpc' = "loop") => Len(kcRest') < Len(kcRest)]_vars

(***************************************************************************)
(* reconcileFuzzers, one action per wanted fuzzer (one iteration of the    *)
(* outer loop, the two inner loops included).                              *)
(***************************************************************************)
MaxWanteds == 3
MaxInterfaces == 2

S_A == <<"A">>
S_B == <<"B">>
S_f == <<"f">>

InterfaceNames == {S_A, S_B}

ErrAlready(name) == [msg |-> "Already have a fuzzer for", name |-> name]
ErrNotFound(name) == [msg |-> "Couldn't find interface", name |-> name]

RECURSIVE SeqsUpTo(_, _)
SeqsUpTo(S, n) ==
    IF n = 0 THEN {<<>>}
    ELSE LET shorter == SeqsUpTo(S, n - 1)
         IN  shorter \cup {Append(t, x) : x \in S, t \in {u \in shorter : Len(u) = n - 1}}

\* A wanted fuzzer as "@fuzz interface: name" alone leaves it.
NewWantedFuzzer(name) ==
    [InterfaceName |-> name, Reference |-> ZeroFunction, ReturnsValue |-> FALSE,
     Comparison |-> <<>>, Generator |-> <<>>, GeneratorState |-> <<>>]

Interface(name, functions) == [Name |-> name, Functions |-> functions]

Function(name, parameters, returns) ==
    [Name |-> name, Parameters |-> parameters, Returns |-> returns]

Fuzzer(iface, wanted) == [Interface |-> iface, Wanted |-> wanted]

RecInterfaces ==
    {Interface(n, fs) : n \in InterfaceNames,
                        fs \in {<<>>, <<Function(S_f, <<>>, <<>>)>>}}

\* The loop over the fuzzers found so far: one error per fuzzer that
\* already has the interface's name.
RECURSIVE existingErrs(_, _, _, _)
existingErrs(fs, i, iface, wanted) ==
    IF i > Len(fs) THEN <<>>
    ELSE (IF fs[i].Interface.Name = iface.Name
          THEN <<ErrAlready(wanted.InterfaceName)>> ELSE <<>>)
            \o existingErrs(fs, i + 1, iface, wanted)

\* The loop over the interfaces, from the i-th on, for one wanted fuzzer.
RECURSIVE interfaceLoop(_, _, _, _)
interfaceLoop(ifaces, i, wanted, st) ==
    IF i > Len(ifaces) THEN st
    ELSE IF wanted.InterfaceName # ifaces[i].Name
         THEN interfaceLoop(ifaces, i + 1, wanted, st)
         ELSE interfaceLoop(ifaces, i + 1, wanted,
                  [fuzzers |-> Append(st.fuzzers, Fuzzer(ifaces[i], wanted)),
                   errs |-> st.errs \o existingErrs(st.fuzzers, 1, ifaces[i], wanted),
                   found |-> TRUE])

\* A reconciliation that records a missing interface only while no error
\* has been recorded yet.
notFoundErrsFirstOnly(st, wanted) ==
    IF ~st.found /\ st.errs = <<>>
    THEN Append(st.errs, ErrNotFound(wanted.InterfaceName))
    ELSE st.errs

\* The end of an iteration of the outer loop.
notFoundErrs(st, wanted) ==
    IF ~st.found THEN Append(st.errs, ErrNotFound(wanted.InterfaceName))
    ELSE st.errs

InitRec ==
    /\ interfaces \in SeqsUpTo(RecInterfaces, MaxInterfaces)
    /\ wanteds \in SeqsUpTo({NewWantedFuzzer(n) : n \in InterfaceNames}, MaxWanteds)
    /\ wantedIdx = 1
    /\ recFuzzers = <<>>
    /\ recErrs = <<>>
    /\ rpc = "loop"

RecWanted ==
    /\ rpc = "loop"
    /\ wantedIdx <= Len(wanteds)
    /\ LET wanted == wanteds[wantedIdx]
           st == interfaceLoop(interfaces, 1, wanted,
                     [fuzzers |-> recFuzzers, errs |-> recErrs, found |-> FALSE])
       IN  /\ recFuzzers' = st.fuzzers
           /\ recErrs' = notFoundErrs(st, wanted)
    /\ wantedIdx' = wantedIdx + 1
    /\ UNCHANGED <<interfaces, wanteds, rpc>>
    /\ UNCHANGED othersRec

RecReturn ==
    /\ rpc = "loop"
    /\ wantedIdx > Len(wanteds)
    /\ rpc' = "done"
    /\ UNCHANGED <<interfaces, wanteds, wantedIdx, recFuzzers, recErrs>>
    /\ UNCHANGED othersRec

NextRec == RecWanted \/ RecReturn

InitSpecRec ==
    InitRec /\ IdleType /\ IdleKC /\ IdleGroup /\ IdleCG /\ IdleTG /\ IdleVC
        /\ IdleNames
        /\ IdleRun
        /\ IdlePipe
        /\ IdleAST
        /\ IdleCmp
        /\ IdleUT
        /\ IdleStr

SpecRec == InitSpecRec /\ [][NextRec]_vars

Declared(n) == \E i \in 1..Len(interfaces) : interfaces[i].Name = n

Declarations(n) == {i \in 1..Len(interfaces) : interfaces[i].Name = n}

\* The wanted fuzzers for interface n among the first k.
Requests(n, k) == {j \in 1..k : wanteds[j].InterfaceName = n}

ErrsAbout(n) == {i \in 1..Len(recErrs) : recErrs[i].name = n}

\* C4: every wanted fuzzer processed so far whose interface is not declared
\* has exactly one error and no fuzzer, and reconcileFuzzers returns only
\* after the last wanted fuzzer.
C4_NoShortCircuit ==
    /\ \A n \in InterfaceNames :
        ~Declared(n) =>
            /\ Cardinality(ErrsAbout(n)) = Cardinality(Requests(n, wantedIdx - 1))
            /\ \A i \in ErrsAbout(n) : recErrs[i] = ErrNotFound(n)
            /\ \A i \in 1..Len(recFuzzers) : recFuzzers[i].Wanted.InterfaceName # n
    /\ rpc = "done" => wantedIdx = Len(wanteds) + 1

\* C4 witness: the first wanted fuzzer was unresolved, and reconciliation
\* went on to produce a fuzzer and a second unresolved error.
C4_Witness ==
    /\ rpc = "done"
    /\ Len(wanteds) >= 3
    /\ ~Declared(wanteds[1].InterfaceName)
    /\ Len(recFuzzers) >= 1
    /\ Cardinality(ErrsAbout(wanteds[1].InterfaceName)) >= 2

\* C5: an interface declared once and requested by m >= 2 wanted fuzzers
\* gets exactly m - 1 duplicate errors.
C5_DuplicateErrors ==
    rpc = "done" =>
        \A n \in InterfaceNames :
            (Cardinality(Declarations(n)) = 1 /\ Cardinality(Requests(n, Len(wanteds))) >= 2)
                => Cardinality({i \in ErrsAbout(n) : recErrs[i] = ErrAlready(n)})
                       = Cardinality(Requests(n, Len(wanteds))) - 1

\* C6: no two returned fuzzers carry the same interface name.
C6_UniqueNames ==
    \A i, j \in 1..Len(recFuzzers) :
        i # j => recFuzzers[i].Interface.Name # recFuzzers[j].Interface.Name

(***************************************************************************)
(* The directive parsers of a special comment.                             *)
(***************************************************************************)
P_fuzz_interface == <<"@", "f", "u", "z", "z", " ", "i", "n", "t", "e", "r", "f", "a", "c", "e", ":">>
P_known_correct == <<"@", "k", "n", "o", "w", "n", " ", "c", "o", "r", "r", "e", "c", "t", ":">>
P_comparison == <<"@", "c", "o", "m", "p", "a", "r", "i", "s", "o", "n", ":">>
P_generator == <<"@", "g", "e", "n", "e", "r", "a", "t", "o", "r", ":">>
P_generator_state ==
    <<"@", "g", "e", "n", "e", "r", "a", "t", "o", "r", " ", "s", "t", "a", "t", "e", ":">>

ErrExpectedName == "expected a name"
ErrLeftOver == "unexpected left over input"
ErrExpectedState == "expected an initial state"
ErrNotMethodOrFunction == "does not appear to be a method or function"
ErrNoFuzzer == "no fuzzer found in group"
\* Not error values: the function does not return, or the process panics.
NoReturn == "does not return"
Panic == "panic: index out of range"

RECURSIVE TrimRightSpace(_)
TrimRightSpace(s) ==
    IF s # <<>> /\ IsSpace(s[Len(s)])
    THEN TrimRightSpace(SubSeq(s, 1, Len(s) - 1)) ELSE s

TrimSpace(s) == TrimRightSpace(TrimLeftSpace(s))

MapPut(m, key, v) == [x \in DOMAIN m \cup {key} |-> IF x = key THEN v ELSE m[x]]

parseFuzzInterface(line) ==
    LET n == parseName(line)
    IN  [name |-> n.name,
         err |-> IF n.name = <<>> THEN ErrExpectedName
                 ELSE IF n.rest # <<>> THEN ErrLeftOver
                 ELSE NoErr]

\* In the operators below an intermediate result of the code (a local
\* variable) is the parameter of a local operator, bound once.

\* The argument loop of parseKnownCorrect.  An iteration that neither fails
\* nor consumes anything repeats forever with the same remainder.
RECURSIVE knownCorrectArgs(_, _)
knownCorrectArgs(rest, args) ==
    LET step(r) ==
            IF r.err # NoErr THEN [args |-> args, err |-> r.err]
            ELSE IF r.rest = rest THEN [args |-> args, err |-> NoReturn]
            ELSE knownCorrectArgs(r.rest, Append(args, r.ty))
    IN  IF rest = <<>> THEN [args |-> args, err |-> NoErr]
        ELSE step(parseType(rest))

parseKnownCorrect(line) ==
    LET result(returnsValue, name, a) ==
            IF a.err # NoErr
            THEN [function |-> Function(name, <<>>, <<>>),
                  returnsValue |-> FALSE, err |-> a.err]
            ELSE [function |-> Function(name, a.args, <<>>),
                  returnsValue |-> returnsValue, err |-> NoErr]
        named(returnsValue, n) ==
            result(returnsValue, n.name, knownCorrectArgs(n.rest, <<>>))
        amp(m) == named(m.ok, parseName(m.rest))
    IN  IF Len(line) = 0
        THEN [function |-> ZeroFunction, returnsValue |-> FALSE,
              err |-> ErrEmptyArgument]
        ELSE amp(matchPrefix(line, <<"&">>))

EitherFunctionOrMethod(isFunction, name, ty) ==
    [IsFunction |-> isFunction, Name |-> name, Type |-> ty]

parseFunctionOrMethod(line) ==
    LET none == EitherFunctionOrMethod(FALSE, <<>>, NilType)
        method(ty, m) ==
            [f |-> EitherFunctionOrMethod(FALSE, m.name, ty), rest |-> m.rest,
             err |-> NoErr]
        function(name, r) ==
            [f |-> EitherFunctionOrMethod(TRUE, name, r.ty), rest |-> r.rest,
             err |-> r.err]
        named(n) ==
            IF n.name # <<>> THEN function(n.name, parseType(n.rest))
            ELSE [f |-> none, rest |-> <<>>, err |-> ErrNotMethodOrFunction]
        typed(t) ==
            IF t.err = NoErr /\ t.rest = <<>>
            THEN \* tyRest[0] of an empty string
                 [f |-> none, rest |-> <<>>, err |-> Panic]
            ELSE IF t.err = NoErr /\ t.rest[1] = ":"
            THEN method(t.ty, parseName(Tail(t.rest)))
            ELSE named(parseName(line))
    IN  typed(parseType(line))

parseComparison(line) ==
    LET result(r) ==
            IF r.err # NoErr THEN [ty |-> NilType, f |-> r.f, err |-> r.err]
            ELSE IF r.rest # <<>>
            THEN [ty |-> NilType, f |-> r.f, err |-> ErrLeftOver]
            ELSE [ty |-> r.f.Type, f |-> r.f, err |-> NoErr]
    IN  result(parseFunctionOrMethod(line))

Generator(isStateful, name) == [IsStateful |-> isStateful, Name |-> name]

parseGenerator(line) ==
    LET typed(stateful, name, r) ==
            [ty |-> r.ty, name |-> name, stateful |-> stateful,
             err |-> IF r.rest # <<>> THEN ErrLeftOver ELSE r.err]
        named(stateful, n) ==
            IF n.name = <<>>
            THEN [ty |-> NilType, name |-> n.name, stateful |-> stateful,
                  err |-> ErrExpectedName]
            ELSE typed(stateful, n.name, parseType(n.rest))
        bang(m) == named(m.ok, parseName(m.rest))
    IN  bang(matchPrefix(line, <<"!">>))

parseGeneratorState(line) ==
    IF line = <<>> THEN [state |-> <<>>, err |-> ErrExpectedState]
    ELSE [state |-> line, err |-> NoErr]

\* The four directives of parseLine, each applied to the fuzzer the
\* previous one left; r is [fuzzer, err], and an error returns at once.
lineKnownCorrect(line, r) ==
    LET set(k) ==
            IF k.err # NoErr THEN [r EXCEPT !.err = k.err]
            ELSE [r EXCEPT
                    !.fuzzer.Reference =
                        [k.function EXCEPT
                            !.Returns = <<BasicType(r.fuzzer.InterfaceName)>>],
                    !.fuzzer.ReturnsValue = k.returnsValue]
        matched(m) ==
            IF r.err # NoErr \/ ~m.ok THEN r ELSE set(parseKnownCorrect(m.rest))
    IN  matched(matchPrefix(line, P_known_correct))

lineComparison(line, r) ==
    LET set(c) ==
            IF c.err # NoErr THEN [r EXCEPT !.err = c.err]
            ELSE [r EXCEPT
                    !.fuzzer.Comparison = MapPut(@, ToString(c.ty), c.f)]
        matched(m) ==
            IF r.err # NoErr \/ ~m.ok THEN r ELSE set(parseComparison(m.rest))
    IN  matched(matchPrefix(line, P_comparison))

lineGenerator(line, r) ==
    LET set(g) ==
            IF g.err # NoErr THEN [r EXCEPT !.err = g.err]
            ELSE [r EXCEPT
                    !.fuzzer.Generator =
                        MapPut(@, ToString(g.ty), Generator(g.stateful, g.name))]
        matched(m) ==
            IF r.err # NoErr \/ ~m.ok THEN r ELSE set(parseGenerator(m.rest))
    IN  matched(matchPrefix(line, P_generator))

lineGeneratorState(line, r) ==
    LET set(g) ==
            IF g.err # NoErr THEN [r EXCEPT !.err = g.err]
            ELSE [r EXCEPT !.fuzzer.GeneratorState = g.state]
        matched(m) ==
            IF r.err # NoErr \/ ~m.ok THEN r
            ELSE set(parseGeneratorState(m.rest))
    IN  matched(matchPrefix(line, P_generator_state))

parseLine(line, fz) ==
    lineGeneratorState(line,
        lineGenerator(line,
            lineComparison(line,
                lineKnownCorrect(line, [fuzzer |-> fz, err |-> NoErr]))))

(***************************************************************************)
(* WantedFuzzerFromCommentGroup, one action per line of the group (the     *)
(* lines of its comments, in order) and one for the return after the last. *)
(***************************************************************************)
MaxLines == 3

L_fuzz_A ==
    <<"@", "f", "u", "z", "z", " ", "i", "n", "t", "e", "r", "f", "a", "c", "e", ":", " ", "A">>
L_fuzz_B ==
    <<" ", " ", "@", "f", "u", "z", "z", " ", "i", "n", "t", "e", "r", "f", "a", "c", "e", ":", " ", "B">>
L_fuzz_none ==
    <<"@", "f", "u", "z", "z", " ", "i", "n", "t", "e", "r", "f", "a", "c", "e", ":">>
L_known ==
    <<"@", "k", "n", "o", "w", "n", " ", "c", "o", "r", "r", "e", "c", "t", ":", " ", "f", " ", "i", "n", "t">>
L_known_amp ==
    <<"@", "k", "n", "o", "w", "n", " ", "c", "o", "r", "r", "e", "c", "t", ":", " ", "&", " ", "f">>
L_gen ==
    <<"@", "g", "e", "n", "e", "r", "a", "t", "o", "r", ":", " ", "!", " ", "g", " ", "T">>
L_gen_none ==
    <<"@", "g", "e", "n", "e", "r", "a", "t", "o", "r", ":", " ", "!">>
L_state ==
    <<"@", "g", "e", "n", "e", "r", "a", "t", "o", "r", " ", "s", "t", "a", "t", "e", ":", " ", "s">>
L_cmp_method ==
    <<"@", "c", "o", "m", "p", "a", "r", "i", "s", "o", "n", ":", " ", "T", ":", "E", "q">>
L_cmp_function ==
    <<"@", "c", "o", "m", "p", "a", "r", "i", "s", "o", "n", ":", " ", "e", "q", " ", "T">>
L_text == <<"t", "e", "x", "t">>

GroupLines ==
    {L_fuzz_A, L_fuzz_B, L_fuzz_none, L_known, L_known_amp, L_gen,
     L_gen_none, L_state, L_cmp_method, L_cmp_function, L_text}

InitGroup ==
    /\ group \in SeqsUpTo(GroupLines, MaxLines)
    /\ lineIdx = 1
    /\ fuzzing = FALSE
    /\ fuzzer = ZeroWantedFuzzer
    /\ fuzzers = <<>>
    /\ groupErr = NoErr
    /\ logErr = FALSE
    /\ gpc = "scan"

\* A variant in which a line met before any "@fuzz interface:" line ends the
\* scan with an error that is reported.
GroupSeekStrict ==
    /\ gpc = "scan"
    /\ lineIdx <= Len(group)
    /\ ~fuzzing
    /\ groupErr' = ErrNoFuzzer
    /\ logErr' = ~matchPrefix(TrimSpace(group[lineIdx]), P_fuzz_interface).ok
    /\ gpc' = "returned"
    /\ UNCHANGED <<group, lineIdx, fuzzing, fuzzer, fuzzers>>
    /\ UNCHANGED othersGroup

\* A line met before any "@fuzz interface:" line.
GroupSeek ==
    /\ gpc = "scan"
    /\ lineIdx <= Len(group)
    /\ ~fuzzing
    /\ LET start(n) ==
               /\ fuzzers' = IF fuzzing THEN Append(fuzzers, fuzzer) ELSE fuzzers
               /\ fuzzer' = NewWantedFuzzer(n.name)
               /\ fuzzing' = TRUE
               /\ IF n.err # NoErr
                  THEN /\ groupErr' = n.err
                       /\ logErr' = TRUE
                       /\ gpc' = "returned"
                       /\ UNCHANGED lineIdx
                  ELSE /\ lineIdx' = lineIdx + 1
                       /\ UNCHANGED <<groupErr, logErr, gpc>>
           matched(m) ==
               IF ~m.ok
               THEN /\ lineIdx' = lineIdx + 1
                    /\ UNCHANGED <<fuzzing, fuzzer, fuzzers, groupErr, logErr, gpc>>
               ELSE start(parseFuzzInterface(m.rest))
       IN  matched(matchPrefix(TrimSpace(group[lineIdx]), P_fuzz_interface))
    /\ UNCHANGED group
    /\ UNCHANGED othersGroup

\* A line met after a "@fuzz interface:" line: parseLine.
GroupParseLine ==
    /\ gpc = "scan"
    /\ lineIdx <= Len(group)
    /\ fuzzing
    /\ LET parsedLine(r) ==
               IF r.err = NoReturn
               THEN /\ gpc' = "hung"
                    /\ UNCHANGED <<lineIdx, fuzzer, groupErr, logErr>>
               ELSE IF r.err = Panic
               THEN /\ gpc' = "panicked"
                    /\ UNCHANGED <<lineIdx, fuzzer, groupErr, logErr>>
               ELSE IF r.err # NoErr
               THEN /\ groupErr' = r.err
                    /\ logErr' = TRUE
                    /\ gpc' = "returned"
                    /\ UNCHANGED <<lineIdx, fuzzer>>
               ELSE /\ fuzzer' = r.fuzzer
                    /\ lineIdx' = lineIdx + 1
                    /\ UNCHANGED <<groupErr, logErr, gpc>>
       IN  parsedLine(parseLine(TrimSpace(group[lineIdx]), fuzzer))
    /\ UNCHANGED <<group, fuzzing, fuzzers>>
    /\ UNCHANGED othersGroup

\* After the last line.
GroupReturn ==
    /\ gpc = "scan"
    /\ lineIdx > Len(group)
    /\ IF fuzzing
       THEN /\ fuzzers' = Append(fuzzers, fuzzer)
            /\ UNCHANGED groupErr
       ELSE /\ groupErr' = ErrNoFuzzer
            /\ UNCHANGED fuzzers
    /\ logErr' = FALSE
    /\ gpc' = "returned"
    /\ UNCHANGED <<group, lineIdx, fuzzing, fuzzer>>
    /\ UNCHANGED othersGroup

NextGroup == GroupSeek \/ GroupParseLine \/ GroupReturn

InitSpecGroup ==
    InitGroup /\ IdleType /\ IdleKC /\ IdleRec /\ IdleCG /\ IdleTG /\ IdleVC
        /\ IdleNames
        /\ IdleRun
        /\ IdlePipe
        /\ IdleAST
        /\ IdleCmp
        /\ IdleUT
        /\ IdleStr

SpecGroup == InitSpecGroup /\ [][NextGroup]_vars

\* The lines of the group that start a fuzzer definition, in order.
RECURSIVE StartNames(_, _)
StartNames(g, i) ==
    IF i > Len(g) THEN <<>>
    ELSE LET m == matchPrefix(TrimSpace(g[i]), P_fuzz_interface)
         IN  (IF m.ok THEN <<parseName(m.rest).name>> ELSE <<>>)
                \o StartNames(g, i + 1)

\* C2: a group scanned without error yields one wanted fuzzer per
\* "@fuzz interface:" line, in the order of those lines.
C2_OneSpecPerStart ==
    (gpc = "returned" /\ groupErr = NoErr) =>
        /\ Len(fuzzers) = Len(StartNames(group, 1))
        /\ \A i \in 1..Len(fuzzers) :
              fuzzers[i].InterfaceName = StartNames(group, 1)[i]

(***************************************************************************)
(* The code generator.  A string of generated code, and an error message,  *)
(* is a sequence of tokens: Lit of literal text, Id of a name or type       *)
(* string taken from the input (a sequence of characters), Num of a        *)
(* number, and Indented of a text whose lines indentLines has indented.    *)
(* A format is a sequence of Lit and Verb tokens; Sprintf replaces Verb(i) *)
(* by its i-th argument.                                                   *)
(***************************************************************************)
Lit(s) == [lit |-> s]
Id(name) == [id |-> name]
Num(n) == [num |-> n]
Verb(i) == [verb |-> i]
Indented(indent, s) == [indent |-> indent, body |-> s]

\* A Go string held as characters, as text of the generator.
String(name) == IF name = <<>> THEN <<>> ELSE <<Id(name)>>

RECURSIVE Sprintf(_, _)
Sprintf(format, args) ==
    IF format = <<>> THEN <<>>
    ELSE (IF "verb" \in DOMAIN Head(format)
          THEN args[Head(format).verb]
          ELSE <<Head(format)>>) \o Sprintf(Tail(format), args)

RECURSIVE Join(_, _)
Join(strs, sep) ==
    IF strs = <<>> THEN <<>>
    ELSE IF Len(strs) = 1 THEN strs[1]
    ELSE strs[1] \o <<Lit(sep)>> \o Join(Tail(strs), sep)

indentLines(s, indent) == IF s = <<>> THEN <<>> ELSE <<Indented(indent, s)>>

S_error == <<"e", "r", "r", "o", "r">>
S_bool == <<"b", "o", "o", "l">>
S_g == <<"g">>
S_s == <<"s">>
S_eq == <<"e", "q">>

ErrStatefulNoState ==
    <<Lit("stateful generator used when no initial state given")>>

ErrDontKnow(tyname) ==
    Sprintf(<<Lit("I don't know how to generate a "), Verb(1)>>, <<String(tyname)>>)

\* Default generators for builtin types.
generators ==
    <<
      <<<<"b", "o", "o", "l">>,
        "rand.Intn(2) == 0">>,
      <<<<"b", "y", "t", "e">>,
        "byte(rand.Uint32())">>,
      <<<<"c", "o", "m", "p", "l", "e", "x", "6", "4">>,
        "complex(float32(rand.NormFloat64()), float32(rand.NormFloat64()))">>,
      <<<<"c", "o", "m", "p", "l", "e", "x", "1", "2", "8">>,
        "complex(rand.NormFloat64(), rand.NormFloat64())">>,
      <<<<"f", "l", "o", "a", "t", "3", "2">>,
        "float32(rand.NormFloat64())">>,
      <<<<"f", "l", "o", "a", "t", "6", "4">>,
        "rand.NormFloat64()">>,
      <<<<"i", "n", "t">>,
        "rand.Int()">>,
      <<<<"i", "n", "t", "8">>,
        "int8(rand.Int())">>,
      <<<<"i", "n", "t", "1", "6">>,
        "int16(rand.Int())">>,
      <<<<"i", "n", "t", "3", "2">>,
        "rand.Int31()">>,
      <<<<"i", "n", "t", "6", "4">>,
        "rand.Int63()">>,
      <<<<"r", "u", "n", "e">>,
        "rune(rand.Int31())">>,
      <<<<"u", "i", "n", "t">>,
        "uint(rand.Uint32())">>,
      <<<<"u", "i", "n", "t", "8">>,
        "uint8(rand.Uint32())">>,
      <<<<"u", "i", "n", "t", "1", "6">>,
        "uint16(rand.Uint32())">>,
      <<<<"u", "i", "n", "t", "3", "2">>,
        "rand.Uint32()">>,
      <<<<"u", "i", "n", "t", "6", "4">>,
        "(uint64(rand.Uint32()) << 32) | uint64(rand.Uint32())">>
    >>

DefaultGenerator(tyname) ==
    IF \E i \in DOMAIN generators : generators[i][1] = tyname
    THEN [tygen |->
             <<Lit(generators[CHOOSE i \in DOMAIN generators :
                                  generators[i][1] = tyname][2])>>,
          ok |-> TRUE]
    ELSE [tygen |-> <<>>, ok |-> FALSE]

\* MakeTypeGenerator with the two lookups in the other order.
MakeTypeGeneratorDefaultFirst(fz, varname, ty) ==
    LET tyname == ToString(ty)
        generator == fz.Wanted.Generator[tyname]
        default == DefaultGenerator(tyname)
    IN  IF default.ok
        THEN [code |-> Sprintf(<<Verb(1), Lit(" = "), Verb(2)>>,
                               <<String(varname), default.tygen>>),
              err |-> nil]
        ELSE IF tyname \in DOMAIN fz.Wanted.Generator
        THEN IF generator.IsStateful
             THEN IF fz.Wanted.GeneratorState = <<>>
                  THEN [code |-> <<>>, err |-> ErrStatefulNoState]
                  ELSE [code |->
                           Sprintf(<<Verb(1), Lit(", state = "), Verb(2),
                                     Lit("(rand, state)")>>,
                                   <<String(varname), String(generator.Name)>>),
                        err |-> nil]
             ELSE [code |-> Sprintf(<<Verb(1), Lit(" = "), Verb(2), Lit("(rand)")>>,
                                    <<String(varname), String(generator.Name)>>),
                   err |-> nil]
        ELSE [code |-> <<>>, err |-> ErrDontKnow(tyname)]

MakeTypeGenerator(fz, varname, ty) ==
    LET tyname == ToString(ty)
        generator == fz.Wanted.Generator[tyname]
        default == DefaultGenerator(tyname)
    IN  IF tyname \in DOMAIN fz.Wanted.Generator
        THEN IF generator.IsStateful
             THEN IF fz.Wanted.GeneratorState = <<>>
                  THEN [code |-> <<>>, err |-> ErrStatefulNoState]
                  ELSE [code |->
                           Sprintf(<<Verb(1), Lit(", state = "), Verb(2),
                                     Lit("(rand, state)")>>,
                                   <<String(varname), String(generator.Name)>>),
                        err |-> nil]
             ELSE [code |-> Sprintf(<<Verb(1), Lit(" = "), Verb(2), Lit("(rand)")>>,
                                    <<String(varname), String(generator.Name)>>),
                   err |-> nil]
        ELSE IF default.ok
        THEN [code |-> Sprintf(<<Verb(1), Lit(" = "), Verb(2)>>,
                               <<String(varname), default.tygen>>),
              err |-> nil]
        ELSE [code |-> <<>>, err |-> ErrDontKnow(tyname)]

\* Default comparisons for builtin types: a format of two arguments.
DefaultComparison(tyname) ==
    IF tyname = S_error
    THEN <<Lit("(("), Verb(1), Lit(" == nil) == ("), Verb(2), Lit(" == nil))")>>
    ELSE <<Lit("reflect.DeepEqual("), Verb(1), Lit(", "), Verb(2), Lit(")")>>

valueComparisonTemplate ==
    <<Lit("if !"), Verb(3), Lit(" {\n\treturn fmt.Errorf(\""), Verb(4),
      Lit("\\nexpected: %v\\nactual:   %v\", "), Verb(1), Lit(", "), Verb(2),
      Lit(")\n}")>>

\* MakeValueComparison with every provided comparison taken for a method.
MakeValueComparisonAsMethod(fz, expectedvar, actualvar, ty, errmsg) ==
    LET tyname == ToString(ty)
        tycomp == fz.Wanted.Comparison[tyname]
        comparison ==
            IF tyname \in DOMAIN fz.Wanted.Comparison
            THEN Sprintf(<<Verb(1), Lit("."), Verb(2), Lit("("), Verb(3), Lit(")")>>,
                         <<String(expectedvar), String(tycomp.Name),
                           String(actualvar)>>)
            ELSE Sprintf(DefaultComparison(tyname),
                         <<String(expectedvar), String(actualvar)>>)
    IN  [code |-> Sprintf(valueComparisonTemplate,
                          <<String(expectedvar), String(actualvar), comparison,
                            errmsg>>),
         err |-> nil]

MakeValueComparison(fz, expectedvar, actualvar, ty, errmsg) ==
    LET tyname == ToString(ty)
        tycomp == fz.Wanted.Comparison[tyname]
        comparison ==
            IF tyname \in DOMAIN fz.Wanted.Comparison
            THEN IF tycomp.IsFunction
                 THEN Sprintf(<<Verb(1), Lit("("), Verb(2), Lit(", "), Verb(3),
                                Lit(")")>>,
                              <<String(tycomp.Name), String(expectedvar),
                                String(actualvar)>>)
                 ELSE Sprintf(<<Verb(1), Lit("."), Verb(2), Lit("("), Verb(3),
                                Lit(")")>>,
                              <<String(expectedvar), String(tycomp.Name),
                                String(actualvar)>>)
            ELSE Sprintf(DefaultComparison(tyname),
                         <<String(expectedvar), String(actualvar)>>)
    IN  [code |-> Sprintf(valueComparisonTemplate,
                          <<String(expectedvar), String(actualvar), comparison,
                            errmsg>>),
         err |-> nil]

(***************************************************************************)
(* Type-directed variable naming.                                          *)
(***************************************************************************)
LowerCase ==
    <<"a", "b", "c", "d", "e", "f", "g", "h", "i", "j", "k", "l", "m",
      "n", "o", "p", "q", "r", "s", "t", "u", "v", "w", "x", "y", "z">>
UpperCase ==
    <<"A", "B", "C", "D", "E", "F", "G", "H", "I", "J", "K", "L", "M",
      "N", "O", "P", "Q", "R", "S", "T", "U", "V", "W", "X", "Y", "Z">>
Digits == <<"0", "1", "2", "3", "4", "5", "6", "7", "8", "9">>

IsLetter(c) ==
    \E i \in DOMAIN LowerCase : c = LowerCase[i] \/ c = UpperCase[i]

ToUpper(c) ==
    IF \E i \in DOMAIN LowerCase : c = LowerCase[i]
    THEN UpperCase[CHOOSE i \in DOMAIN LowerCase : c = LowerCase[i]]
    ELSE c

\* strconv.Itoa, for the indices the model reaches.
Itoa(i) == <<Digits[i + 1]>>

filter(s, allowed(_)) == SelectSeq(s, allowed)

S_arg == <<"a", "r", "g">>
S_actual == <<"a", "c", "t", "u", "a", "l">>
S_expected == <<"e", "x", "p", "e", "c", "t", "e", "d">>

TypeNameToVarName(pref, ty) ==
    LET name == filter(ToString(ty), IsLetter)
    IN  pref \o (IF name = <<>> THEN <<>> ELSE <<ToUpper(name[1])>> \o Tail(name))

\* The loop of TypeListNames from index i on (1-based; the code's index is
\* i - 1), names being the names given so far.
RECURSIVE typeListNamesFrom(_, _, _, _)
typeListNamesFrom(prefix, tylist, i, names) ==
    IF i > Len(tylist) THEN names
    ELSE LET name == TypeNameToVarName(prefix, tylist[i])
         IN  typeListNamesFrom(prefix, tylist, i + 1,
                 Append(names,
                        IF \E j \in DOMAIN names : names[j] = name
                        THEN name \o Itoa(i - 1) ELSE name))

\* TypeListNames without the check against the prior names.
TypeListNamesUnchecked(prefix, tylist) ==
    [i \in DOMAIN tylist |-> TypeNameToVarName(prefix, tylist[i])]

TypeListNames(prefix, tylist) == typeListNamesFrom(prefix, tylist, 1, <<>>)

FuncArgNames(function) == TypeListNames(S_arg, function.Parameters)
FuncActualNames(function) == TypeListNames(S_actual, function.Returns)
FuncExpectedNames(function) == TypeListNames(S_expected, function.Returns)

(***************************************************************************)
(* MakeTypeGenerator, called for a parameter type of a fuzzer.             *)
(***************************************************************************)
TGTypes ==
    {BasicType(S_int), BasicType(S_bool), BasicType(S_T),
     ArrayType(BasicType(S_int))}

GeneratorMaps ==
    UNION {[D -> {Generator(b, S_g) : b \in BOOLEAN}] :
              D \in SUBSET {ToString(t) : t \in TGTypes}}

InitTG ==
    /\ tgFuzzer \in
          {Fuzzer(Interface(S_A, <<>>),
                  [NewWantedFuzzer(S_A) EXCEPT
                      !.Generator = g, !.GeneratorState = st]) :
              g \in GeneratorMaps, st \in {<<>>, S_s}}
    /\ tgTy \in TGTypes
    /\ tgVar \in {TypeNameToVarName(S_arg, tgTy),
                  TypeNameToVarName(S_arg, tgTy) \o Itoa(1)}
    /\ tgResult = NoCode
    /\ tgpc = "call"

TGCall ==
    /\ tgpc = "call"
    /\ tgResult' = MakeTypeGenerator(tgFuzzer, tgVar, tgTy)
    /\ tgpc' = "returned"
    /\ UNCHANGED <<tgFuzzer, tgVar, tgTy>>
    /\ UNCHANGED othersTG

NextTG == TGCall

InitSpecTG ==
    InitTG /\ IdleType /\ IdleKC /\ IdleGroup /\ IdleRec /\ IdleCG /\ IdleVC
        /\ IdleNames
        /\ IdleRun
        /\ IdlePipe
        /\ IdleAST
        /\ IdleCmp
        /\ IdleUT
        /\ IdleStr

SpecTG == InitSpecTG /\ [][NextTG]_vars

\* What the call returned, read off the returned code and error.
TGRegistered == ToString(tgTy) \in DOMAIN tgFuzzer.Wanted.Generator

TGHasDefault ==
    \E i \in DOMAIN generators : generators[i][1] = ToString(tgTy)

TGUsesRegistered ==
    /\ tgResult.err = nil
    /\ tgResult.code # <<>>
    /\ tgResult.code[1] = Id(tgVar)
    /\ \E i \in DOMAIN tgResult.code :
          tgResult.code[i] = Id(tgFuzzer.Wanted.Generator[ToString(tgTy)].Name)

TGUsesDefault ==
    /\ tgResult.err = nil
    /\ Len(tgResult.code) = 3
    /\ tgResult.code[1] = Id(tgVar)
    /\ \E i \in DOMAIN generators :
          /\ generators[i][1] = ToString(tgTy)
          /\ tgResult.code[3] = Lit(generators[i][2])

TGNoGeneratorError ==
    /\ tgResult.code = <<>>
    /\ tgResult.err =
          <<Lit("I don't know how to generate a "), Id(ToString(tgTy))>>

TGStatefulError ==
    /\ tgResult.code = <<>>
    /\ tgResult.err = ErrStatefulNoState

\* C8: the generator of a parameter type is the one registered for its type
\* string, else the default of the table, else the call fails with the
\* "I don't know how to generate" error and no code.
C8_GeneratorPrecedence ==
    tgpc = "returned" =>
        IF TGRegistered THEN TGUsesRegistered
        ELSE IF TGHasDefault THEN TGUsesDefault
        ELSE TGNoGeneratorError

\* C8, amended: as C8, but a registered stateful generator of a fuzzer
\* without an initial state gives the stateful-generator error and no code.
C8_GeneratorPrecedenceAmended ==
    tgpc = "returned" =>
        IF TGRegistered
        THEN IF /\ tgFuzzer.Wanted.Generator[ToString(tgTy)].IsStateful
                /\ tgFuzzer.Wanted.GeneratorState = <<>>
             THEN TGStatefulError
             ELSE TGUsesRegistered
        ELSE IF TGHasDefault THEN TGUsesDefault
        ELSE TGNoGeneratorError

\* A registered generator used for a type that also has a default.
C8_Witness ==
    /\ tgpc = "returned"
    /\ TGRegistered
    /\ TGHasDefault
    /\ TGUsesRegistered

(***************************************************************************)
(* MakeValueComparison, called for a return type of a fuzzer.              *)
(***************************************************************************)
VCTypes ==
    {BasicType(S_error), BasicType(S_T), BasicType(S_int),
     ArrayType(BasicType(S_T))}

ComparisonMaps ==
    {[k \in {ToString(t) : t \in DOMAIN f} |->
         EitherFunctionOrMethod(
             f[CHOOSE t \in DOMAIN f : ToString(t) = k], S_eq,
             CHOOSE t \in DOMAIN f : ToString(t) = k)] :
        f \in UNION {[D -> BOOLEAN] : D \in SUBSET VCTypes}}

InitVC ==
    /\ vcFuzzer \in
          {Fuzzer(Interface(S_A, <<>>),
                  [NewWantedFuzzer(S_A) EXCEPT !.Comparison = c]) :
              c \in ComparisonMaps}
    /\ vcTy \in VCTypes
    /\ \E suffix \in {<<>>, Itoa(1)} :
          /\ vcExpected = TypeNameToVarName(S_expected, vcTy) \o suffix
          /\ vcActual = TypeNameToVarName(S_actual, vcTy) \o suffix
    /\ vcResult = NoCode
    /\ vcpc = "call"

VCCall ==
    /\ vcpc = "call"
    /\ vcResult' =
          MakeValueComparison(vcFuzzer, vcExpected, vcActual, vcTy,
              <<Lit("inconsistent result in "), Id(S_f)>>)
    /\ vcpc' = "returned"
    /\ UNCHANGED <<vcFuzzer, vcExpected, vcActual, vcTy>>
    /\ UNCHANGED othersVC

NextVC == VCCall

InitSpecVC ==
    InitVC /\ IdleType /\ IdleKC /\ IdleGroup /\ IdleRec /\ IdleCG /\ IdleTG
        /\ IdleNames
        /\ IdleRun
        /\ IdlePipe
        /\ IdleAST
        /\ IdleCmp
        /\ IdleUT
        /\ IdleStr

SpecVC == InitSpecVC /\ [][NextVC]_vars

\* The returned code tests the negation of the comparison expression cmp.
VCCompares(cmp) ==
    /\ Len(vcResult.code) > Len(cmp) + 1
    /\ vcResult.code[1] = Lit("if !")
    /\ SubSeq(vcResult.code, 2, Len(cmp) + 1) = cmp
    /\ vcResult.code[Len(cmp) + 2] = Lit(" {\n\treturn fmt.Errorf(\"")

VCRegistered == ToString(vcTy) \in DOMAIN vcFuzzer.Wanted.Comparison

VCComparator == vcFuzzer.Wanted.Comparison[ToString(vcTy)]

\* C9: a comparison is always produced, and it is the registered method
\* (expected.Name(actual)), the registered function (Name(expected,
\* actual)), else for type "error" the equality of nil-ness, else
\* reflect.DeepEqual; a comparator registered for "error" is the one used.
C9_ComparisonPrecedence ==
    vcpc = "returned" =>
        /\ vcResult.err = nil
        /\ IF VCRegistered
           THEN IF VCComparator.IsFunction
                THEN VCCompares(<<Id(VCComparator.Name), Lit("("), Id(vcExpected),
                                  Lit(", "), Id(vcActual), Lit(")")>>)
                ELSE VCCompares(<<Id(vcExpected), Lit("."), Id(VCComparator.Name),
                                  Lit("("), Id(vcActual), Lit(")")>>)
           ELSE IF vcTy = BasicType(S_error)
           THEN VCCompares(<<Lit("(("), Id(vcExpected), Lit(" == nil) == ("),
                             Id(vcActual), Lit(" == nil))")>>)
           ELSE VCCompares(<<Lit("reflect.DeepEqual("), Id(vcExpected), Lit(", "),
                             Id(vcActual), Lit(")")>>)

\* A function registered for "error" has replaced the nil-ness default.
C9_Witness ==
    /\ vcpc = "returned"
    /\ vcTy = BasicType(S_error)
    /\ VCRegistered
    /\ VCComparator.IsFunction
    /\ VCCompares(<<Id(S_eq), Lit("("), Id(vcExpected), Lit(", "),
                    Id(vcActual), Lit(")")>>)

(***************************************************************************)
(* The main code generators.                                               *)
(***************************************************************************)
S_mk == <<"m", "k">>
S_fmt == <<"\"", "f", "m", "t", "\"">>

\* An *ast.ImportSpec: Name is <<>> for a nil Name.
ImportSpec(name, path) == [Name |-> name, Path |-> path]

GenerateImport(iport) ==
    IF iport.Name # <<>>
    THEN <<Lit("import "), Id(iport.Name), Lit(" "), Id(iport.Path)>>
    ELSE <<Lit("import "), Id(iport.Path)>>

RECURSIVE importLines(_)
importLines(iports) ==
    IF iports = <<>> THEN <<>>
    ELSE GenerateImport(Head(iports)) \o <<Lit("\n")>> \o importLines(Tail(iports))

GeneratePreamble(packagename, iports) ==
    <<Lit("package ")>> \o String(packagename) \o <<Lit("\n\n")>>
        \o importLines(iports) \o <<Lit("\n")>>

\* goimports.Process either rewrites the code or fails, leaving no code.
ErrGoimports == <<Lit("goimports.Process failed")>>
Processed(s) == <<[processed |-> s]>>

FixImports(opts, s, ok) ==
    IF opts.Complete
    THEN IF ok THEN [code |-> Processed(s), err |-> nil]
         ELSE [code |-> <<>>, err |-> ErrGoimports]
    ELSE [code |-> s, err |-> nil]

GeneratorArgs(fz) ==
    Join([i \in DOMAIN fz.Wanted.Reference.Parameters |->
             String(ToString(fz.Wanted.Reference.Parameters[i]))], ", ")

functionCallsTemplate ==
    <<Lit("var (\n\t"), Verb(3), Lit("\n)\n\n"), Verb(4), Lit("\n\n"), Verb(6),
      Lit(" := "), Verb(1), Lit("("), Verb(5), Lit(")\n"), Verb(7), Lit(" := "),
      Verb(2), Lit("("), Verb(5), Lit(")")>>

functionCallsTemplateNoArgs ==
    <<Verb(3), Lit(" := "), Verb(1), Lit("()\n"), Verb(4), Lit(" := "), Verb(2),
      Lit("()")>>

\* The parameter loop of MakeFunctionCalls from parameter i on: the
\* generators made so far, or the first error.
RECURSIVE functionCallGens(_, _, _, _)
functionCallGens(fz, function, i, gens) ==
    LET made(gen) ==
            IF gen.err # nil THEN [gens |-> <<>>, err |-> gen.err]
            ELSE functionCallGens(fz, function, i + 1, Append(gens, gen.code))
    IN  IF i > Len(function.Parameters) THEN [gens |-> gens, err |-> nil]
        ELSE made(MakeTypeGenerator(fz, FuncArgNames(function)[i],
                                    function.Parameters[i]))

MakeFunctionCalls(fz, function, funcA, funcB) ==
    LET names(strs) == [i \in DOMAIN strs |-> String(strs[i])]
        decls(argNames) ==
            [i \in DOMAIN function.Parameters |->
                <<Id(argNames[i]), Lit(" "), Id(ToString(function.Parameters[i]))>>]
        body(g, argNames, retsExpected, retsActual) ==
            IF g.err # nil THEN [code |-> <<>>, err |-> g.err]
            ELSE IF Len(argNames) = 0
            THEN [code |-> Sprintf(functionCallsTemplateNoArgs,
                                   <<funcA, funcB, Join(retsExpected, ", "),
                                     Join(retsActual, ", ")>>),
                  err |-> nil]
            ELSE [code |-> Sprintf(functionCallsTemplate,
                                   <<funcA, funcB, Join(decls(argNames), "\n\t"),
                                     Join(g.gens, "\n"),
                                     Join(names(argNames), ", "),
                                     Join(retsExpected, ", "),
                                     Join(retsActual, ", ")>>),
                  err |-> nil]
    IN  body(functionCallGens(fz, function, 1, <<>>), FuncArgNames(function),
             names(FuncExpectedNames(function)),
             names(FuncActualNames(function)))

functionTestTemplate ==
    <<Lit("// Call the method on both implementations\n"), Verb(1),
      Lit("\n\n// And check for discrepancies.\n"), Verb(2)>>

CodegenFunctionTest(fz, function) ==
    LET checks(retsExpected, retsActual) ==
            [i \in DOMAIN function.Returns |->
                MakeValueComparison(fz, retsExpected[i], retsActual[i],
                    function.Returns[i],
                    <<Lit("inconsistent result in ")>> \o String(function.Name)).code]
        test(funcalls) ==
            IF funcalls.err # nil THEN [code |-> <<>>, err |-> funcalls.err]
            ELSE [code |-> Sprintf(functionTestTemplate,
                                   <<funcalls.code,
                                     Join(checks(FuncExpectedNames(function),
                                                 FuncActualNames(function)),
                                          "\n")>>),
                  err |-> nil]
    IN  test(MakeFunctionCalls(fz, function,
                 <<Lit("reference.")>> \o String(function.Name),
                 <<Lit("test.")>> \o String(function.Name)))

withReferenceTemplate ==
    <<Lit("func Fuzz"), Verb(1), Lit("With(reference "), Verb(1), Lit(", test "),
      Verb(1), Lit(", rand *rand.Rand, maxops uint) error {"), Verb(4),
      Lit("\n\n\tfor i = 0; i < maxops; i++ {\n"),
      Lit("\t\t// Pick a random number between 0 and the number of methods of the interface. Then do that method on\n"),
      Lit("\t\t// both, check for discrepancy, and bail out on error. Simple!\n\n"),
      Lit("\t\tactionToPerform := rand.Intn("),
      Verb(2), Lit(")\n\n\t\tswitch actionToPerform {\n"), Verb(3),
      Lit("\n\t\t}\n\t}\n\n\treturn nil\n}")>>

\* The method loop of CodegenWithReference from method i on: the cases made
\* so far, or the first error.
RECURSIVE referenceActions(_, _, _)
referenceActions(fz, i, actions) ==
    LET made(action) ==
            IF action.err # nil THEN [actions |-> <<>>, err |-> action.err]
            ELSE referenceActions(fz, i + 1,
                     Append(actions,
                            Sprintf(<<Lit("case "), Verb(1), Lit(":\n"), Verb(2)>>,
                                    <<<<Num(i - 1)>>,
                                      indentLines(action.code, "\t")>>)))
    IN  IF i > Len(fz.Interface.Functions) THEN [actions |-> actions, err |-> nil]
        ELSE made(CodegenFunctionTest(fz, fz.Interface.Functions[i]))

CodegenWithReference(fz) ==
    LET initialState ==
            IF fz.Wanted.GeneratorState # <<>>
            THEN <<Lit("\n\n\t// Create initial state\n\tstate := "),
                   Id(fz.Wanted.GeneratorState)>>
            ELSE <<>>
        body(a) ==
            IF a.err # nil THEN [code |-> <<>>, err |-> a.err]
            ELSE [code |-> Sprintf(withReferenceTemplate,
                                   <<String(fz.Interface.Name),
                                     <<Num(Len(fz.Interface.Functions))>>,
                                     indentLines(Join(a.actions, "\n"), "\t\t"),
                                     initialState>>),
                  err |-> nil]
    IN  body(referenceActions(fz, 1, <<>>))

withDefaultReferenceTemplate ==
    <<Lit("func Fuzz"), Verb(1), Lit("(makeTest (func ("), Verb(2), Lit(") "),
      Verb(1), Lit("), rand *rand.Rand, max uint) error {\n"), Verb(5),
      Lit("\n\n\treturn Fuzz"), Verb(1), Lit("With("), Verb(4), Lit("expected"),
      Verb(1), Lit(", actual"), Verb(1), Lit(", rand, max)\n}")>>

CodegenWithDefaultReference(fz) ==
    LET ampersand == IF fz.Wanted.ReturnsValue THEN <<Lit("&")>> ELSE <<>>
        body(funcalls) ==
            IF funcalls.err # nil THEN [code |-> <<>>, err |-> funcalls.err]
            ELSE [code |-> Sprintf(withDefaultReferenceTemplate,
                                   <<String(fz.Interface.Name), GeneratorArgs(fz),
                                     String(fz.Wanted.Reference.Name), ampersand,
                                     indentLines(funcalls.code, "\t")>>),
                  err |-> nil]
    IN  body(MakeFunctionCalls(fz, fz.Wanted.Reference,
                 String(fz.Wanted.Reference.Name), <<Lit("makeTest")>>))

testCaseTemplate ==
    <<Lit("func FuzzTest"), Verb(1), Lit("(makeTest (func("), Verb(2), Lit(") "),
      Verb(1),
      Lit("), t *testing.T) {\n\trand := rand.New(rand.NewSource(0))\n\n\terr := Fuzz"),
      Verb(1),
      Lit("(makeTest, rand, 100)\n\n\tif err != nil {\n\t\tt.Error(err)\n\t}\n}")>>

CodegenTestCase(fz) ==
    [code |-> Sprintf(testCaseTemplate,
                      <<String(fz.Interface.Name), GeneratorArgs(fz)>>),
     err |-> nil]

codeGenErr(fz, err) ==
    Sprintf(<<Lit("error occurred whilst generating code for '"), Verb(1),
              Lit("': "), Verb(2), Lit(".")>>,
            <<String(fz.Interface.Name), err>>)

\* One iteration of the loop of CodeGen: st is [code, errs]; each step
\* leaves st alone once an error has been appended for this fuzzer.
codeGenHeader(fz, st) ==
    [code |-> st.code \o <<Lit("// ")>> \o String(fz.Interface.Name)
                 \o <<Lit("\n\n")>>,
     errs |-> st.errs, failed |-> FALSE]

codeGenStep(fz, enabled, st, generated) ==
    IF st.failed \/ ~enabled THEN st
    ELSE IF generated.err # nil
    THEN [code |-> st.code, errs |-> Append(st.errs, codeGenErr(fz, generated.err)),
          failed |-> TRUE]
    ELSE [code |-> st.code \o generated.code \o <<Lit("\n\n")>>, errs |-> st.errs,
          failed |-> FALSE]

codeGenFuzzer(opts, fz, st) ==
    codeGenStep(fz, TRUE,
        codeGenStep(fz, ~opts.NoDefaultFuzz,
            codeGenStep(fz, ~(opts.NoTestCase \/ opts.NoDefaultFuzz),
                codeGenHeader(fz, st),
                CodegenTestCase(fz)),
            CodegenWithDefaultReference(fz)),
        CodegenWithReference(fz))

(***************************************************************************)
(* CodeGen: the preamble, one action per fuzzer of the list, and the       *)
(* return through FixImports.                                              *)
(***************************************************************************)
MaxFuzzers == 2

\* A generator for T: none, or a stateful one without or with a state.
CGGenerators ==
    {[Generator |-> <<>>, GeneratorState |-> <<>>],
     [Generator |-> [k \in {S_T} |-> Generator(TRUE, S_g)], GeneratorState |-> <<>>],
     [Generator |-> [k \in {S_T} |-> Generator(TRUE, S_g)], GeneratorState |-> S_s]}

CGFuzzers ==
    {Fuzzer(Interface(name, <<Function(S_f, <<param>>, <<BasicType(S_error)>>)>>),
            [NewWantedFuzzer(name) EXCEPT
                !.Reference = Function(S_mk, refParams, <<BasicType(name)>>),
                !.Generator = g.Generator,
                !.GeneratorState = g.GeneratorState]) :
        name \in InterfaceNames,
        param \in {BasicType(S_int), BasicType(S_T)},
        refParams \in {<<>>, <<BasicType(S_T)>>},
        g \in CGGenerators}

InitCG ==
    /\ options \in
          {[Complete |-> c, PackageName |-> S_p, NoTestCase |-> t,
            NoDefaultFuzz |-> d] : c \in BOOLEAN, t \in BOOLEAN, d \in BOOLEAN}
    /\ imports \in {<<>>, <<ImportSpec(<<>>, S_fmt), ImportSpec(S_f, S_fmt)>>}
    /\ cgFuzzers \in SeqsUpTo(CGFuzzers, MaxFuzzers)
    /\ cgIdx = 1
    /\ code = <<>>
    /\ errs = <<>>
    /\ cgpc = "start"

CGPreamble ==
    /\ cgpc = "start"
    /\ code' = IF options.Complete
               THEN GeneratePreamble(options.PackageName, imports)
               ELSE code
    /\ cgpc' = "loop"
    /\ UNCHANGED <<options, imports, cgFuzzers, cgIdx, errs>>
    /\ UNCHANGED othersCG

CGFuzzer ==
    /\ cgpc = "loop"
    /\ cgIdx <= Len(cgFuzzers)
    /\ LET done(st) == code' = st.code /\ errs' = st.errs
       IN  done(codeGenFuzzer(options, cgFuzzers[cgIdx],
                              [code |-> code, errs |-> errs]))
    /\ cgIdx' = cgIdx + 1
    /\ UNCHANGED <<options, imports, cgFuzzers, cgpc>>
    /\ UNCHANGED othersCG

CGReturn ==
    /\ cgpc = "loop"
    /\ cgIdx > Len(cgFuzzers)
    /\ \E ok \in BOOLEAN :
          LET fixed(r) ==
                  /\ code' = r.code
                  /\ errs' = IF r.err # nil THEN Append(errs, r.err) ELSE errs
          IN  fixed(FixImports(options, code, ok))
    /\ cgpc' = "returned"
    /\ UNCHANGED <<options, imports, cgFuzzers, cgIdx>>
    /\ UNCHANGED othersCG

NextCG == CGPreamble \/ CGFuzzer \/ CGReturn

InitSpecCG ==
    InitCG /\ IdleType /\ IdleKC /\ IdleGroup /\ IdleRec /\ IdleTG /\ IdleVC
        /\ IdleNames
        /\ IdleRun
        /\ IdlePipe
        /\ IdleAST
        /\ IdleCmp
        /\ IdleUT
        /\ IdleStr

SpecCG == InitSpecCG /\ [][NextCG]_vars

\* The generated text, before or after goimports.
CGText ==
    IF code # <<>> /\ "processed" \in DOMAIN code[1] THEN code[1].processed
    ELSE code

\* Token a of the text is followed by the name n (and then by token b).
CGHas(a, n) ==
    \E i \in 1..(Len(CGText) - 1) : CGText[i] = a /\ CGText[i + 1] = Id(n)

CGHasThen(a, n, b) ==
    \E i \in 1..(Len(CGText) - 2) :
        CGText[i] = a /\ CGText[i + 1] = Id(n) /\ CGText[i + 2] = b

CGHasHeader(n) == CGHasThen(Lit("// "), n, Lit("\n\n"))
CGHasTestCase(n) == CGHas(Lit("func FuzzTest"), n)
CGHasWithDefaultReference(n) ==
    CGHasThen(Lit("func Fuzz"), n, Lit("(makeTest (func ("))
CGHasWithReference(n) == CGHasThen(Lit("func Fuzz"), n, Lit("With(reference "))

\* An error of the list is about the fuzzer named n.
CGFailed(n) ==
    \E j \in DOMAIN errs :
        /\ Len(errs[j]) > 1
        /\ errs[j][1] = Lit("error occurred whilst generating code for '")
        /\ errs[j][2] = Id(n)

CGStatefulWithoutState(fz) ==
    /\ fz.Wanted.GeneratorState = <<>>
    /\ \E k \in DOMAIN fz.Wanted.Generator : fz.Wanted.Generator[k].IsStateful

\* C7: a fuzzer with a stateful generator and no initial state fails with
\* the stateful-generator error, whether or not a parameter has the
\* generator's type.
C7_StatefulNeedsState ==
    \A i \in DOMAIN cgFuzzers :
        (cgpc \in {"loop", "returned"} /\ i < cgIdx
            /\ CGStatefulWithoutState(cgFuzzers[i]))
        => \E j \in DOMAIN errs :
              errs[j] = codeGenErr(cgFuzzers[i], ErrStatefulNoState)

\* C10: in the returned code a fuzzer that failed has neither header nor
\* fragment, and a fuzzer that did not fail has its header and all the
\* fragments the options ask for (for fuzzers of distinct names, and when
\* goimports did not fail).
C10_NoPartialCode ==
    (cgpc = "returned" /\ (errs = <<>> \/ errs[Len(errs)] # ErrGoimports)) =>
        \A i \in DOMAIN cgFuzzers :
            LET n == cgFuzzers[i].Interface.Name
            IN  (\A j \in DOMAIN cgFuzzers :
                    j # i => cgFuzzers[j].Interface.Name # n)
                => IF CGFailed(n)
                   THEN /\ ~CGHasHeader(n)
                        /\ ~CGHasTestCase(n)
                        /\ ~CGHasWithDefaultReference(n)
                        /\ ~CGHasWithReference(n)
                   ELSE /\ CGHasHeader(n)
                        /\ (options.NoTestCase \/ options.NoDefaultFuzz
                               \/ CGHasTestCase(n))
                        /\ (options.NoDefaultFuzz \/ CGHasWithDefaultReference(n))
                        /\ CGHasWithReference(n)

(***************************************************************************)
(* The variable names of one method case: FuncArgNames, FuncExpectedNames  *)
(* and FuncActualNames of a function.                                      *)
(***************************************************************************)
MaxTypes == 3

S_ual == <<"u", "a", "l">>

\* Types with equal and with different letters-only projections; "ual" makes
\* the argument name "argUal", next to the prefix "actual".
NameTypes ==
    {BasicType(S_int), ArrayType(BasicType(S_int)), BasicType(S_T),
     BasicType(S_ual)}

InitNames ==
    /\ nmFunction \in
          {Function(S_f, ps, rs) :
              ps \in SeqsUpTo(NameTypes, MaxTypes),
              rs \in SeqsUpTo(NameTypes, MaxTypes)}
    /\ nmArgs = <<>>
    /\ nmExpected = <<>>
    /\ nmActual = <<>>
    /\ nmpc = "call"

NamesCall ==
    /\ nmpc = "call"
    /\ nmArgs' = FuncArgNames(nmFunction)
    /\ nmExpected' = FuncExpectedNames(nmFunction)
    /\ nmActual' = FuncActualNames(nmFunction)
    /\ nmpc' = "returned"
    /\ UNCHANGED nmFunction
    /\ UNCHANGED othersNames

NextNames == NamesCall

InitSpecNames ==
    InitNames /\ IdleType /\ IdleKC /\ IdleGroup /\ IdleRec /\ IdleCG /\ IdleTG
        /\ IdleVC
        /\ IdleRun
        /\ IdlePipe
        /\ IdleAST
        /\ IdleCmp
        /\ IdleUT
        /\ IdleStr

SpecNames == InitSpecNames /\ [][NextNames]_vars

\* C11: the argument, expected and actual names of one function are
\* pairwise distinct, within each list and between the lists.
C11_DistinctNames ==
    nmpc = "returned" =>
        LET all == nmArgs \o nmExpected \o nmActual
        IN  /\ Len(nmArgs) = Len(nmFunction.Parameters)
            /\ Len(nmExpected) = Len(nmFunction.Returns)
            /\ Len(nmActual) = Len(nmFunction.Returns)
            /\ \A i, j \in DOMAIN all : i # j => all[i] # all[j]

\* Three parameters of letters-only projection "int", two of them the same
\* type, have been named.
C11_Witness ==
    /\ nmpc = "returned"
    /\ Len(nmFunction.Parameters) = 3
    /\ \A i \in 1..3 :
          nmFunction.Parameters[i]
              \in {BasicType(S_int), ArrayType(BasicType(S_int))}
    /\ nmFunction.Parameters[1] = nmFunction.Parameters[3]
    /\ nmFunction.Parameters[1] # nmFunction.Parameters[2]
    /\ nmArgs[3] = nmArgs[1] \o <<"2">>

(***************************************************************************)
(* A run of the generated core routine Fuzz<Name>With(reference, test,     *)
(* rand, maxops): the program that withReferenceTemplate and               *)
(* functionCallTemplate emit, executed statement by statement.  The values *)
(* the user's code produces (method results, generated arguments, the      *)
(* truth of an invariant) are drawn from small sets; every generation,     *)
(* call, comparison and invariant evaluation is recorded in runLog.        *)
(***************************************************************************)
MaxOps == 2

S_h == <<"h">>
S_U == <<"U">>
S_gu == <<"g", "u">>
S_reference == <<"r", "e", "f", "e", "r", "e", "n", "c", "e">>
S_test == <<"t", "e", "s", "t">>
S_var == <<"%", "v", "a", "r">>

\* strings.Replace(s, old, new, -1) for a non-empty old.
RECURSIVE Replace(_, _, _)
Replace(s, old, new) ==
    IF s = <<>> THEN <<>>
    ELSE IF HasPrefix(s, old)
    THEN new \o Replace(SubSeq(s, Len(old) + 1, Len(s)), old, new)
    ELSE <<s[1]>> \o Replace(Tail(s), old, new)

\* sed replacing the first occurrence only.
RECURSIVE sedFirstOnly(_, _, _)
sedFirstOnly(s, old, new) ==
    IF s = <<>> THEN <<>>
    ELSE IF HasPrefix(s, old)
    THEN new \o SubSeq(s, Len(old) + 1, Len(s))
    ELSE <<s[1]>> \o sedFirstOnly(Tail(s), old, new)

\* The template function sed.
sed(s, old, new) == Replace(s, old, new)

\* The values of the run.
RunValues == {0, 1}

Event(ev, who, what, args, res, iter) ==
    [ev |-> ev, who |-> who, what |-> what, args |-> args, res |-> res,
     iter |-> iter]

\* "x, state = g(rand, state)" without the assignment of state.
AssignStateDropped(current, returned) == current

\* The state after "x, state = g(rand, state)".
AssignState(current, returned) == returned

\* The statements makeTyGen emits for the parameters of a function, from
\* parameter p on: a stateful generator is called with state and assigns
\* state, the others leave it alone.  draws are the values rand yields.
RECURSIVE runGenerate(_, _, _, _, _, _)
runGenerate(fz, function, p, draws, iter, acc) ==
    LET gen(tyname, varname) ==
            IF tyname \in DOMAIN fz.Wanted.Generator
            THEN IF fz.Wanted.Generator[tyname].IsStateful
                 THEN [args |-> Append(acc.args, acc.state[1]),
                       state |-> AssignState(acc.state, <<acc.state[1] + 1>>),
                       log |-> Append(acc.log,
                                  Event("gen", fz.Wanted.Generator[tyname].Name,
                                        varname, acc.state,
                                        <<acc.state[1], acc.state[1] + 1>>,
                                        iter))]
                 ELSE [args |-> Append(acc.args, draws[p]),
                       state |-> acc.state,
                       log |-> Append(acc.log,
                                  Event("gen", fz.Wanted.Generator[tyname].Name,
                                        varname, <<>>, <<draws[p]>>, iter))]
            ELSE [args |-> Append(acc.args, draws[p]),
                  state |-> acc.state,
                  log |-> Append(acc.log,
                             Event("gen", <<>>, varname, <<>>, <<draws[p]>>,
                                   iter))]
    IN  IF p > Len(function.Parameters) THEN acc
        ELSE runGenerate(fz, function, p + 1, draws, iter,
                 gen(ToString(function.Parameters[p]),
                     FuncArgNames(function)[p]))

\* The comparison the routine applies to one return position: presence for
\* error, reflect.DeepEqual for everything else.
RunCompare(ty, expected, actual) ==
    IF ToString(ty) = S_error
    THEN (expected = 0) = (actual = 0)
    ELSE expected = actual

RunInconsistent(function, expected, actual) ==
    Sprintf(<<Lit("inconsistent result in "), Id(function.Name),
              Lit("\nexpected: "), Verb(1), Lit("\nactual:   "), Verb(2)>>,
            <<<<Num(expected)>>, <<Num(actual)>>>>)

RunInvariantViolated(invariant) == <<Lit("invariant violated: "), Id(invariant)>>

\* The cases of the switch numbered from the last method.
RunMethodReversed ==
    runFuzzer.Interface.Functions[Len(runFuzzer.Interface.Functions)
                                      - actionToPerform]

\* "case i:" holds the calls of method i of the interface, counted from 0.
RunMethod == runFuzzer.Interface.Functions[actionToPerform + 1]

\* Inputs: interfaces of no, one and two methods, stateful generators for T
\* and U or a stateful one for T and a plain one for U, and up to two
\* invariants ("%var.k", "a%var=%var").
RunMethodF == Function(S_f, <<BasicType(S_int)>>, <<BasicType(S_int)>>)
RunMethodH ==
    Function(S_h, <<BasicType(S_T), BasicType(S_U)>>,
             <<BasicType(S_int), BasicType(S_error)>>)

RunInterfaces ==
    {<<>>, <<RunMethodF>>, <<RunMethodF, RunMethodH>>,
     <<RunMethodH, RunMethodF>>}

RunGenerators ==
    {[Generator |-> <<>>, GeneratorState |-> <<>>]}
        \cup {[Generator |->
                   [k \in {S_T, S_U} |->
                       IF k = S_T THEN Generator(TRUE, S_g)
                       ELSE Generator(stateful, S_gu)],
               GeneratorState |-> S_s] : stateful \in BOOLEAN}

RunFuzzers ==
    {Fuzzer(Interface(S_A, functions),
            [NewWantedFuzzer(S_A) EXCEPT
                !.Generator = g.Generator,
                !.GeneratorState = g.GeneratorState]) :
        functions \in RunInterfaces, g \in RunGenerators}

\* An invariant is pieces of text around occurrences of %var.
RECURSIVE JoinChars(_, _)
JoinChars(pieces, sep) ==
    IF Len(pieces) = 0 THEN <<>>
    ELSE IF Len(pieces) = 1 THEN pieces[1]
    ELSE pieces[1] \o sep \o JoinChars(Tail(pieces), sep)

InvariantK == <<<<>>, <<".", "k">>>>
InvariantA == <<<<"a">>, <<"=">>, <<>>>>
InvariantPieces == {InvariantK, InvariantA}

RunInvariantLists ==
    {<<>>, <<JoinChars(InvariantA, S_var)>>,
     <<JoinChars(InvariantK, S_var), JoinChars(InvariantA, S_var)>>}

\* The Go compiler rejects a routine whose state is declared and never used.
RunBuilds(fz) ==
    fz.Wanted.GeneratorState # <<>> =>
        \E i \in DOMAIN fz.Interface.Functions :
            \E p \in DOMAIN fz.Interface.Functions[i].Parameters :
                LET tyname == ToString(fz.Interface.Functions[i].Parameters[p])
                IN  /\ tyname \in DOMAIN fz.Wanted.Generator
                    /\ fz.Wanted.Generator[tyname].IsStateful

InitRun ==
    /\ runFuzzer \in {fz \in RunFuzzers :
                         CodegenWithReference(fz).err = nil /\ RunBuilds(fz)}
    /\ runInvariants \in RunInvariantLists
    /\ maxops \in 0..MaxOps
    /\ runI = 0
    /\ actionToPerform = 0
    /\ runArgs = <<>>
    /\ runExpected = <<>>
    /\ runActual = <<>>
    /\ state = <<>>
    /\ runPos = 0
    /\ runLog = <<>>
    /\ runResult = nil
    /\ runpc = "start"

\* "state := <initial state>", when a generator state was given.
RunEnter ==
    /\ runpc = "start"
    /\ IF runFuzzer.Wanted.GeneratorState # <<>>
       THEN /\ state' = <<0>>
            /\ runLog' = Append(runLog,
                             Event("decl", <<>>, runFuzzer.Wanted.GeneratorState,
                                   <<>>, <<0>>, runI))
       ELSE UNCHANGED <<state, runLog>>
    /\ runpc' = "loop"
    /\ UNCHANGED <<runFuzzer, runInvariants, maxops, runI, actionToPerform,
                   runArgs, runExpected, runActual, runPos, runResult>>
    /\ UNCHANGED othersRun

\* "i < maxops" holds: "actionToPerform := rand.Intn(count)", which panics
\* for a count of 0.
RunPick ==
    /\ runpc = "loop"
    /\ runI < maxops
    /\ IF Len(runFuzzer.Interface.Functions) = 0
       THEN runpc' = "panicked" /\ UNCHANGED <<actionToPerform, runLog>>
       ELSE /\ actionToPerform' \in 0..(Len(runFuzzer.Interface.Functions) - 1)
            /\ runLog' = Append(runLog, Event("pick", <<>>, <<>>, <<>>,
                                              <<actionToPerform'>>, runI))
            /\ runpc' = "case"
    /\ UNCHANGED <<runFuzzer, runInvariants, maxops, runI, runArgs, runExpected,
                   runActual, state, runPos, runResult>>
    /\ UNCHANGED othersRun

\* "i < maxops" fails: "return nil".
RunReturnNil ==
    /\ runpc = "loop"
    /\ runI >= maxops
    /\ runResult' = nil
    /\ runpc' = "returned"
    /\ UNCHANGED <<runFuzzer, runInvariants, maxops, runI, actionToPerform,
                   runArgs, runExpected, runActual, state, runPos, runLog>>
    /\ UNCHANGED othersRun

\* "case i:" declares the argument variables and fills them.
RunCase ==
    /\ runpc = "case"
    /\ \E draws \in [DOMAIN RunMethod.Parameters -> RunValues] :
          LET made(g) ==
                  /\ runArgs' = g.args
                  /\ state' = g.state
                  /\ runLog' = g.log
          IN  made(runGenerate(runFuzzer, RunMethod, 1, draws, runI,
                               [args |-> <<>>, state |-> state, log |-> runLog]))
    /\ runpc' = "reference"
    /\ UNCHANGED <<runFuzzer, runInvariants, maxops, runI, actionToPerform,
                   runExpected, runActual, runPos, runResult>>
    /\ UNCHANGED othersRun

\* "expecteds := reference.Method(arguments)".
RunReference ==
    /\ runpc = "reference"
    /\ runExpected' \in [DOMAIN RunMethod.Returns -> RunValues]
    /\ runLog' = Append(runLog, Event("call", S_reference, RunMethod.Name,
                                      runArgs, runExpected', runI))
    /\ runpc' = "test"
    /\ UNCHANGED <<runFuzzer, runInvariants, maxops, runI, actionToPerform,
                   runArgs, runActual, state, runPos, runResult>>
    /\ UNCHANGED othersRun

\* "actuals := test.Method(arguments)".
RunTest ==
    /\ runpc = "test"
    /\ runActual' \in [DOMAIN RunMethod.Returns -> RunValues]
    /\ runLog' = Append(runLog, Event("call", S_test, RunMethod.Name, runArgs,
                                      runActual', runI))
    /\ runPos' = 1
    /\ runpc' = "check"
    /\ UNCHANGED <<runFuzzer, runInvariants, maxops, runI, actionToPerform,
                   runArgs, runExpected, state, runResult>>
    /\ UNCHANGED othersRun

\* "if !comparison(expected, actual) { return fmt.Errorf(...) }" for the
\* return position runPos; after the last one the switch is left.
RunCheck ==
    /\ runpc = "check"
    /\ IF runPos > Len(RunMethod.Returns)
       THEN /\ runPos' = 1
            /\ runpc' = "invariant"
            /\ UNCHANGED <<runLog, runResult>>
       ELSE /\ runLog' = Append(runLog,
                             Event("cmp", ToString(RunMethod.Returns[runPos]),
                                   RunMethod.Name, <<runPos>>,
                                   <<runExpected[runPos], runActual[runPos]>>,
                                   runI))
            /\ IF RunCompare(RunMethod.Returns[runPos], runExpected[runPos],
                             runActual[runPos])
               THEN /\ runPos' = runPos + 1
                    /\ UNCHANGED <<runpc, runResult>>
               ELSE /\ runResult' = RunInconsistent(RunMethod, runExpected[runPos],
                                                    runActual[runPos])
                    /\ runpc' = "returned"
                    /\ UNCHANGED runPos
    /\ UNCHANGED <<runFuzzer, runInvariants, maxops, runI, actionToPerform,
                   runArgs, runExpected, runActual, state>>
    /\ UNCHANGED othersRun

\* "if !(sed invariant "%var" "reference") { return errors.New(...) }" for
\* the invariant runPos; after the last one "i++".
RunInvariant ==
    /\ runpc = "invariant"
    /\ IF runPos > Len(runInvariants)
       THEN /\ runI' = runI + 1
            /\ runpc' = "loop"
            /\ UNCHANGED <<runPos, runLog, runResult>>
       ELSE \E holds \in BOOLEAN :
               /\ runLog' = Append(runLog,
                                Event("inv", <<>>, runInvariants[runPos],
                                      <<sed(runInvariants[runPos], S_var,
                                            S_reference)>>,
                                      <<holds>>, runI))
               /\ IF holds
                  THEN /\ runPos' = runPos + 1
                       /\ UNCHANGED <<runpc, runResult>>
                  ELSE /\ runResult' = RunInvariantViolated(runInvariants[runPos])
                       /\ runpc' = "returned"
                       /\ UNCHANGED runPos
               /\ UNCHANGED runI
    /\ UNCHANGED <<runFuzzer, runInvariants, maxops, actionToPerform, runArgs,
                   runExpected, runActual, state>>
    /\ UNCHANGED othersRun

NextRun ==
    \/ RunEnter
    \/ RunPick
    \/ RunReturnNil
    \/ RunCase
    \/ RunReference
    \/ RunTest
    \/ RunCheck
    \/ RunInvariant

InitSpecRun ==
    InitRun /\ IdleType /\ IdleKC /\ IdleGroup /\ IdleRec /\ IdleCG /\ IdleTG
        /\ IdleVC /\ IdleNames
        /\ IdlePipe
        /\ IdleAST
        /\ IdleCmp
        /\ IdleUT
        /\ IdleStr

SpecRun == InitSpecRun /\ [][NextRun]_vars

\* The events of one kind of one iteration, in the order they happened.
RunEvents(ev, iter) ==
    SelectSeq(runLog, LAMBDA e : e.ev = ev /\ e.iter = iter)

\* C12: in every iteration the drawn index i selects method i of the
\* interface in declaration order, one argument list is generated, and that
\* method is called once on reference and then once on test with the same
\* argument values.
C12_SameCallOnBoth ==
    \A iter \in 0..runI :
        LET picks == RunEvents("pick", iter)
            gens == RunEvents("gen", iter)
            calls == RunEvents("call", iter)
            holds(method) ==
                /\ Len(gens) <= Len(method.Parameters)
                /\ Len(calls) <= 2
                /\ iter < runI => Len(calls) = 2
                /\ Len(calls) >= 1 =>
                      /\ calls[1].who = S_reference
                      /\ Len(gens) = Len(method.Parameters)
                      /\ calls[1].args = [p \in DOMAIN gens |-> gens[p].res[1]]
                /\ Len(calls) = 2 => calls[2].who = S_test
                /\ \A c \in DOMAIN calls :
                      /\ calls[c].what = method.Name
                      /\ calls[c].args = calls[1].args
        IN  /\ Len(picks) <= 1
            /\ Len(picks) = 0 => Len(gens) = 0 /\ Len(calls) = 0
            /\ Len(picks) = 1 =>
                  /\ picks[1].res[1] < Len(runFuzzer.Interface.Functions)
                  /\ holds(runFuzzer.Interface.Functions[picks[1].res[1] + 1])

\* Two iterations of the interface (f, h) are complete, the first drew 1
\* and called h, the second drew 0 and called f.
C12_Witness ==
    /\ runFuzzer.Interface.Functions = <<RunMethodF, RunMethodH>>
    /\ runI = 2
    /\ RunEvents("pick", 0)[1].res = <<1>>
    /\ RunEvents("call", 0)[2].what = S_h
    /\ RunEvents("call", 0)[2].who = S_test
    /\ RunEvents("pick", 1)[1].res = <<0>>
    /\ RunEvents("call", 1)[1].what = S_f
    /\ RunEvents("call", 1)[1].who = S_reference

\* The comparisons and invariant evaluations of the run that failed.
RunFailures ==
    SelectSeq(runLog,
              LAMBDA e : \/ e.ev = "cmp" /\ ~RunCompare(BasicType(e.who),
                                                        e.res[1], e.res[2])
                         \/ e.ev = "inv" /\ e.res = <<FALSE>>)

RunEnded == runpc \in {"returned", "panicked"}

\* The comparisons of an iteration are those of positions 1, 2, ... in
\* order, and only the last of them may have failed.
RunComparedInOrder(iter) ==
    LET cmps == RunEvents("cmp", iter)
    IN  \A j \in DOMAIN cmps :
            /\ cmps[j].args = <<j>>
            /\ j < Len(cmps) =>
                  RunCompare(BasicType(cmps[j].who), cmps[j].res[1],
                             cmps[j].res[2])

\* C13: return positions are compared in order; the first comparison that
\* fails ends the run with an error of the method name and both values, and
\* nothing is called after it; a run in which no comparison and no
\* invariant fails ends after exactly maxops iterations with no error.
C13_FirstDivergenceStops ==
    /\ \A iter \in 0..runI : RunComparedInOrder(iter)
    /\ Len(RunFailures) <= 1
    /\ Len(RunFailures) = 1 =>
          /\ runpc = "returned"
          /\ runLog[Len(runLog)] = RunFailures[1]
          /\ RunFailures[1].ev = "cmp" =>
                runResult = RunInconsistent([Name |-> RunFailures[1].what],
                                            RunFailures[1].res[1],
                                            RunFailures[1].res[2])
    /\ (RunEnded /\ Len(RunFailures) = 0) =>
          /\ runpc = "returned"
          /\ runResult = nil
          /\ runI = maxops
          /\ \A iter \in 0..(maxops - 1) : Len(RunEvents("call", iter)) = 2

\* C13 without the runs of an interface that has no method.
C13_WithMethods ==
    Len(runFuzzer.Interface.Functions) > 0 => C13_FirstDivergenceStops

\* A run of an interface without methods has ended with no failure and no
\* return.
C13_Panicked ==
    /\ runpc = "panicked"
    /\ Len(runFuzzer.Interface.Functions) = 0
    /\ maxops > 0
    /\ Len(RunFailures) = 0

\* The text of an invariant, split around its occurrences of %var.
PiecesOf(invariant) ==
    CHOOSE pieces \in InvariantPieces : JoinChars(pieces, S_var) = invariant

\* The position in runLog of the call on test of an iteration.
RunTestCallAt(iter) ==
    CHOOSE n \in DOMAIN runLog :
        /\ runLog[n].ev = "call"
        /\ runLog[n].who = S_test
        /\ runLog[n].iter = iter

C15_InvariantsOnTest ==
    \A n \in DOMAIN runLog :
        runLog[n].ev = "inv" =>
            runLog[n].args = <<JoinChars(PiecesOf(runLog[n].what), S_test)>>

\* The generations of the run that were given the state, in order.
RunStatefulGens ==
    SelectSeq(runLog, LAMBDA e : e.ev = "gen" /\ e.args # <<>>)

RunStatefulNames ==
    {runFuzzer.Wanted.Generator[t].Name :
        t \in {u \in DOMAIN runFuzzer.Wanted.Generator :
                  runFuzzer.Wanted.Generator[u].IsStateful}}

\* C16: state is declared once, before the loop, from the generator state;
\* the k-th stateful generation of a run receives the state the (k-1)-th
\* returned (the first one the declared state), and the variable holds the
\* state the last one returned; the other generations neither receive nor
\* return a state.
C16_StateThreaded ==
    LET decls == SelectSeq(runLog, LAMBDA e : e.ev = "decl")
        gens == RunStatefulGens
    IN  /\ Len(decls) <= 1
        /\ runpc # "start" =>
              Len(decls) = IF runFuzzer.Wanted.GeneratorState # <<>> THEN 1 ELSE 0
        /\ Len(decls) = 1 =>
              /\ runLog[1] = decls[1]
              /\ decls[1].what = runFuzzer.Wanted.GeneratorState
        /\ \A k \in DOMAIN gens :
              /\ Len(decls) = 1
              /\ gens[k].args = IF k = 1 THEN decls[1].res
                                ELSE <<gens[k - 1].res[2]>>
        /\ state = IF Len(gens) > 0 THEN <<gens[Len(gens)].res[2]>>
                   ELSE IF Len(decls) = 1 THEN decls[1].res
                   ELSE <<>>
        /\ \A n \in DOMAIN runLog :
              runLog[n].ev = "gen" =>
                  IF runLog[n].who \in RunStatefulNames
                  THEN Len(runLog[n].args) = 1 /\ Len(runLog[n].res) = 2
                  ELSE Len(runLog[n].args) = 0 /\ Len(runLog[n].res) = 1

\* Two iterations called h: the stateful generators of T and of U ran twice
\* each, the second iteration starting from the state the first one left.
C16_Witness ==
    /\ runI = 2
    /\ Len(RunStatefulGens) = 4
    /\ RunStatefulGens[2].who = S_gu
    /\ RunStatefulGens[3].who = S_g
    /\ RunStatefulGens[3].iter = 1
    /\ RunStatefulGens[3].args = <<RunStatefulGens[2].res[2]>>
    /\ state = <<RunStatefulGens[4].res[2]>>

(***************************************************************************)
(* The pipeline of main for a file with one comment group: the wanted      *)
(* fuzzers of the group, their reconciliation with the interfaces, the     *)
(* code generation, and then a run of the generated default driver         *)
(* Fuzz<Name>(makeTest, rand, max) of the first fuzzer.                    *)
(***************************************************************************)
\* WantedFuzzerFromCommentGroup from line i on.
RECURSIVE groupLoop(_, _, _, _, _)
groupLoop(g, i, isFuzzing, fz, fzs) ==
    LET failed(err) == [fuzzers |-> fzs, err |-> err, logErr |-> TRUE]
        parsedLine(r) ==
            IF r.err # NoErr THEN failed(r.err)
            ELSE groupLoop(g, i + 1, TRUE, r.fuzzer, fzs)
        start(n) ==
            IF n.err # NoErr THEN failed(n.err)
            ELSE groupLoop(g, i + 1, TRUE, NewWantedFuzzer(n.name), fzs)
        matched(m) ==
            IF ~m.ok THEN groupLoop(g, i + 1, FALSE, fz, fzs)
            ELSE start(parseFuzzInterface(m.rest))
    IN  IF i > Len(g)
        THEN IF isFuzzing
             THEN [fuzzers |-> Append(fzs, fz), err |-> NoErr, logErr |-> FALSE]
             ELSE [fuzzers |-> fzs, err |-> ErrNoFuzzer, logErr |-> FALSE]
        ELSE IF isFuzzing THEN parsedLine(parseLine(TrimSpace(g[i]), fz))
        ELSE matched(matchPrefix(TrimSpace(g[i]), P_fuzz_interface))

WantedFuzzerFromCommentGroup(g) == groupLoop(g, 1, FALSE, ZeroWantedFuzzer, <<>>)

\* reconcileFuzzers from wanted fuzzer i on.
RECURSIVE reconcileFuzzers(_, _, _, _)
reconcileFuzzers(ifaces, ws, i, st) ==
    LET next(r) ==
            reconcileFuzzers(ifaces, ws, i + 1,
                [fuzzers |-> r.fuzzers, errs |-> notFoundErrs(r, ws[i]),
                 found |-> FALSE])
    IN  IF i > Len(ws) THEN st
        ELSE next(interfaceLoop(ifaces, 1, ws[i],
                      [fuzzers |-> st.fuzzers, errs |-> st.errs, found |-> FALSE]))

\* The loop of CodeGen from fuzzer i on.
RECURSIVE codeGenLoop(_, _, _, _)
codeGenLoop(opts, fzs, i, st) ==
    LET next(r) == codeGenLoop(opts, fzs, i + 1, [code |-> r.code, errs |-> r.errs])
    IN  IF i > Len(fzs) THEN st ELSE next(codeGenFuzzer(opts, fzs[i], st))

S_a == <<"a">>
S_A2 == <<"A", "2">>
S_state == <<"s", "t", "a", "t", "e">>
S_makeTest == <<"m", "a", "k", "e", "T", "e", "s", "t">>

\* Inputs: a group of "@fuzz interface:" for A, a or A2, at most one
\* "@known correct:" line (mk, with or without & and a parameter), and
\* possibly a stateful generator for T with its state.
PipeNames == {S_A, S_a, S_A2}

PipeKnownPayloads ==
    {S_mk, <<"&", " ">> \o S_mk, S_mk \o <<" ">> \o S_int,
     <<"&">> \o S_mk \o <<" ">> \o S_int, S_mk \o <<" ">> \o S_T}

PipeGroups ==
    {<<L_text, P_fuzz_interface \o <<" ">> \o n>> \o known \o gens :
        n \in PipeNames,
        known \in {<<>>} \cup {<<P_known_correct \o <<" ">> \o p>> :
                                  p \in PipeKnownPayloads},
        gens \in {<<>>, <<L_gen, L_state>>}}

\* The "@known correct:" lines of a group, and whether one has the "&".
HasKnownCorrect(g) ==
    \E i \in DOMAIN g : matchPrefix(TrimSpace(g[i]), P_known_correct).ok

HasKnownCorrectValue(g) ==
    \E i \in DOMAIN g :
        /\ matchPrefix(TrimSpace(g[i]), P_known_correct).ok
        /\ HasPrefix(TrimLeftSpace(SubSeq(TrimSpace(g[i]),
                                          Len(P_known_correct) + 1,
                                          Len(TrimSpace(g[i])))), <<"&">>)

InitPipe ==
    /\ pipeGroup \in PipeGroups
    /\ pipeInterfaces \in {<<Interface(n, <<RunMethodF>>)>> : n \in PipeNames}
    /\ pipeWanteds = <<>>
    /\ werrs = <<>>
    /\ pipeFuzzers = <<>>
    /\ ferrs = <<>>
    /\ pipeCode = <<>>
    /\ cerrs = <<>>
    /\ drvScope = <<>>
    /\ drvLog = <<>>
    /\ drvPassed = <<>>
    /\ ppc = "start"

\* WantedFuzzersFromAST for the one group of the file; main exits when an
\* error was found.
PipeWanted ==
    /\ ppc = "start"
    /\ LET done(r) ==
               IF r.err \in {NoReturn, Panic}
               THEN ppc' = "crashed" /\ UNCHANGED <<pipeWanteds, werrs>>
               ELSE IF r.err = NoErr
               THEN /\ pipeWanteds' = r.fuzzers
                    /\ ppc' = "reconcile"
                    /\ UNCHANGED werrs
               ELSE IF r.logErr
               THEN /\ werrs' = <<r.err>>
                    /\ ppc' = "exit"
                    /\ UNCHANGED pipeWanteds
               ELSE ppc' = "reconcile" /\ UNCHANGED <<pipeWanteds, werrs>>
       IN  done(WantedFuzzerFromCommentGroup(pipeGroup))
    /\ UNCHANGED <<pipeGroup, pipeInterfaces, pipeFuzzers, ferrs, pipeCode, cerrs,
                   drvScope, drvLog, drvPassed>>
    /\ UNCHANGED othersPipe

PipeReconcile ==
    /\ ppc = "reconcile"
    /\ LET done(r) ==
               /\ pipeFuzzers' = r.fuzzers
               /\ ferrs' = r.errs
               /\ ppc' = IF Len(r.errs) > 0 THEN "exit" ELSE "codegen"
       IN  done(reconcileFuzzers(pipeInterfaces, pipeWanteds, 1,
                                 [fuzzers |-> <<>>, errs |-> <<>>, found |-> FALSE]))
    /\ UNCHANGED <<pipeGroup, pipeInterfaces, pipeWanteds, werrs, pipeCode, cerrs,
                   drvScope, drvLog, drvPassed>>
    /\ UNCHANGED othersPipe

PipeCodeGen ==
    /\ ppc = "codegen"
    /\ LET done(r) ==
               /\ pipeCode' = r.code
               /\ cerrs' = r.errs
               /\ ppc' = IF Len(r.errs) > 0 THEN "exit" ELSE "printed"
       IN  done(codeGenLoop(ZeroOptions, pipeFuzzers, 1,
                            [code |-> <<>>, errs |-> <<>>]))
    /\ UNCHANGED <<pipeGroup, pipeInterfaces, pipeWanteds, werrs, pipeFuzzers,
                   ferrs, drvScope, drvLog, drvPassed>>
    /\ UNCHANGED othersPipe

\* The fuzzer whose driver is run.
DrvFuzzer == pipeFuzzers[1]

Range(s) == {s[i] : i \in DOMAIN s}

\* The names Fuzz<Name> declares, and the names its statements use.
DrvDeclared(fz) ==
    Range(FuncArgNames(fz.Wanted.Reference))
        \cup Range(FuncExpectedNames(fz.Wanted.Reference))
        \cup Range(FuncActualNames(fz.Wanted.Reference))

DrvUsed(fz) ==
    {S_expected \o fz.Interface.Name, S_actual \o fz.Interface.Name}
        \cup (IF \E p \in DOMAIN fz.Wanted.Reference.Parameters :
                    LET tyname == ToString(fz.Wanted.Reference.Parameters[p])
                    IN  /\ tyname \in DOMAIN fz.Wanted.Generator
                        /\ fz.Wanted.Generator[tyname].IsStateful
              THEN {S_state} ELSE {})

\* The Go compiler on the printed Fuzz<Name>: a call of a function with no
\* name does not parse, and every name used must be declared.
PipeBuild ==
    /\ ppc = "printed"
    /\ Len(pipeFuzzers) > 0
    /\ ppc' = IF /\ DrvFuzzer.Wanted.Reference.Name # <<>>
                 /\ DrvUsed(DrvFuzzer) \subseteq DrvDeclared(DrvFuzzer)
              THEN "built" ELSE "rejected"
    /\ UNCHANGED <<pipeGroup, pipeInterfaces, pipeWanteds, werrs, pipeFuzzers,
                   ferrs, pipeCode, cerrs, drvScope, drvLog, drvPassed>>
    /\ UNCHANGED othersPipe

\* "var (...)" and the generator statements of the arguments.
DrvGenerate ==
    /\ ppc = "built"
    /\ \E draws \in [DOMAIN DrvFuzzer.Wanted.Reference.Parameters -> RunValues] :
          LET names == FuncArgNames(DrvFuzzer.Wanted.Reference)
              made(g) ==
                  /\ drvScope' = [n \in Range(names) |->
                                     g.args[CHOOSE i \in DOMAIN names : names[i] = n]]
                  /\ drvLog' = g.log
          IN  made(runGenerate(DrvFuzzer, DrvFuzzer.Wanted.Reference, 1, draws, 0,
                               [args |-> <<>>, state |-> <<>>, log |-> drvLog]))
    /\ ppc' = "reference"
    /\ UNCHANGED <<pipeGroup, pipeInterfaces, pipeWanteds, werrs, pipeFuzzers,
                   ferrs, pipeCode, cerrs, drvPassed>>
    /\ UNCHANGED othersPipe

DrvArguments ==
    [i \in DOMAIN DrvFuzzer.Wanted.Reference.Parameters |->
        drvScope[FuncArgNames(DrvFuzzer.Wanted.Reference)[i]]]

\* What a call of a constructor returns.
Made(by, args) == [by |-> by, args |-> args]

\* "expected<Type> := <Reference.Name>(arguments)".
DrvReference ==
    /\ ppc = "reference"
    /\ drvScope' = MapPut(drvScope, FuncExpectedNames(DrvFuzzer.Wanted.Reference)[1],
                          Made(DrvFuzzer.Wanted.Reference.Name, DrvArguments))
    /\ drvLog' = Append(drvLog, Event("call", DrvFuzzer.Wanted.Reference.Name, <<>>,
                                      DrvArguments, <<>>, 0))
    /\ ppc' = "test"
    /\ UNCHANGED <<pipeGroup, pipeInterfaces, pipeWanteds, werrs, pipeFuzzers,
                   ferrs, pipeCode, cerrs, drvPassed>>
    /\ UNCHANGED othersPipe

\* "actual<Type> := makeTest(arguments)".
DrvTest ==
    /\ ppc = "test"
    /\ drvScope' = MapPut(drvScope, FuncActualNames(DrvFuzzer.Wanted.Reference)[1],
                          Made(S_makeTest, DrvArguments))
    /\ drvLog' = Append(drvLog, Event("call", S_makeTest, <<>>, DrvArguments,
                                      <<>>, 0))
    /\ ppc' = "return"
    /\ UNCHANGED <<pipeGroup, pipeInterfaces, pipeWanteds, werrs, pipeFuzzers,
                   ferrs, pipeCode, cerrs, drvPassed>>
    /\ UNCHANGED othersPipe

\* "return Fuzz<Name>With(<&>expected<Name>, actual<Name>, rand, max)".
DrvReturn ==
    /\ ppc = "return"
    /\ drvPassed' =
          [reference |-> [addressOf |-> DrvFuzzer.Wanted.ReturnsValue,
                          val |-> drvScope[S_expected \o DrvFuzzer.Interface.Name]],
           test |-> [addressOf |-> FALSE,
                     val |-> drvScope[S_actual \o DrvFuzzer.Interface.Name]]]
    /\ ppc' = "returned"
    /\ UNCHANGED <<pipeGroup, pipeInterfaces, pipeWanteds, werrs, pipeFuzzers,
                   ferrs, pipeCode, cerrs, drvScope, drvLog>>
    /\ UNCHANGED othersPipe

NextPipe ==
    \/ PipeWanted
    \/ PipeReconcile
    \/ PipeCodeGen
    \/ PipeBuild
    \/ DrvGenerate
    \/ DrvReference
    \/ DrvTest
    \/ DrvReturn

InitSpecPipe ==
    InitPipe /\ IdleType /\ IdleKC /\ IdleGroup /\ IdleRec /\ IdleCG /\ IdleTG
        /\ IdleVC /\ IdleNames /\ IdleRun
        /\ IdleAST
        /\ IdleCmp
        /\ IdleUT
        /\ IdleStr

SpecPipe == InitSpecPipe /\ [][NextPipe]_vars

\* The pipeline reported no error and printed the code.
PipePrinted ==
    ppc \in {"printed", "built", "rejected", "reference", "test", "return",
             "returned"}

\* C17: the default driver of a harness with a "@known correct:" line calls
\* the reference constructor and makeTest with the same generated
\* arguments, passes the result of the first with & exactly when the line
\* had the &, and passes the result of makeTest as it is.
C17_DriverPassesResults ==
    (PipePrinted /\ HasKnownCorrect(pipeGroup)) =>
        /\ ppc # "rejected"
        /\ ppc = "returned" =>
              /\ Len(SelectSeq(drvLog, LAMBDA e : e.ev = "call")) = 2
              /\ drvLog[Len(drvLog) - 1].who = DrvFuzzer.Wanted.Reference.Name
              /\ drvLog[Len(drvLog)].who = S_makeTest
              /\ drvLog[Len(drvLog) - 1].args = drvLog[Len(drvLog)].args
              /\ Len(drvLog[Len(drvLog)].args)
                    = Len(DrvFuzzer.Wanted.Reference.Parameters)
              /\ drvPassed.reference.val
                    = Made(DrvFuzzer.Wanted.Reference.Name,
                           drvLog[Len(drvLog) - 1].args)
              /\ drvPassed.reference.addressOf = HasKnownCorrectValue(pipeGroup)
              /\ drvPassed.test
                    = [addressOf |-> FALSE,
                       val |-> Made(S_makeTest, drvLog[Len(drvLog)].args)]

\* C17 for the interface A alone.
C17_ForA ==
    (pipeInterfaces[1].Name = S_A
        /\ \A p \in DOMAIN pipeFuzzers :
              \A i \in DOMAIN pipeFuzzers[p].Wanted.Reference.Parameters :
                  pipeFuzzers[p].Wanted.Reference.Parameters[i] # BasicType(S_T))
        => C17_DriverPassesResults

\* The driver of a harness for the interface a, with a reference
\* constructor and no stateful generator, does not build.
C17_Rejected ==
    /\ ppc = "rejected"
    /\ HasKnownCorrect(pipeGroup)
    /\ DrvFuzzer.Interface.Name = S_a
    /\ DrvUsed(DrvFuzzer) = {S_expected \o S_a, S_actual \o S_a}
    /\ S_expected \o S_A \in DrvDeclared(DrvFuzzer)

\* C18: a harness whose group has a "@fuzz interface:" line and no
\* "@known correct:" line gets an error from the pipeline: no code is
\* printed for it.
C18_ReferenceRequired ==
    ~HasKnownCorrect(pipeGroup) =>
        /\ ~PipePrinted
        /\ ppc = "exit" => Len(werrs) + Len(ferrs) + Len(cerrs) > 0

\* Code was printed with no error for a harness without "@known correct:":
\* its driver calls a constructor with no name.
C18_Printed ==
    /\ ~HasKnownCorrect(pipeGroup)
    /\ ppc = "printed"
    /\ werrs = <<>> /\ ferrs = <<>> /\ cerrs = <<>>
    /\ DrvFuzzer.Wanted.Reference.Name = <<>>
    /\ \E i \in DOMAIN pipeCode :
          /\ pipeCode[i] = Lit("func Fuzz")
          /\ pipeCode[i + 2] = Lit("(makeTest (func (")

(***************************************************************************)
(* WantedFuzzersFromAST: the comment groups of a file.  go/parser lists    *)
(* every comment group of the file in Comments, the package comment Doc,   *)
(* when there is one, among them; astDoc is <<>> for a nil Doc.            *)
(***************************************************************************)
MaxGroups == 2
MaxGroupLines == 2

ASTLines == {L_fuzz_A, L_fuzz_B, L_fuzz_none, L_known, L_gen_none}

ASTGroups == SeqsUpTo(ASTLines, MaxGroupLines)

InitAST ==
    /\ astComments \in SeqsUpTo(ASTGroups, MaxGroups)
    /\ astDoc \in {<<>>} \cup {<<astComments[i]>> : i \in DOMAIN astComments}
    /\ astIdx = 0
    /\ astWanteds = <<>>
    /\ astErrs = <<>>
    /\ astpc = "doc"

\* What the two loops of WantedFuzzersFromAST do with the result of one
\* group.
astGroup(r, st) ==
    IF r.err \in {NoReturn, Panic}
    THEN [wanteds |-> st.wanteds, errs |-> st.errs, crashed |-> TRUE]
    ELSE IF r.err = NoErr
    THEN [wanteds |-> st.wanteds \o r.fuzzers, errs |-> st.errs, crashed |-> FALSE]
    ELSE IF r.logErr
    THEN [wanteds |-> st.wanteds, errs |-> Append(st.errs, r.err),
          crashed |-> FALSE]
    ELSE [wanteds |-> st.wanteds, errs |-> st.errs, crashed |-> FALSE]

\* "if theAST.Doc != nil { ... }".
ASTDoc ==
    /\ astpc = "doc"
    /\ IF astDoc # <<>>
       THEN LET done(st) ==
                    /\ astWanteds' = st.wanteds
                    /\ astErrs' = st.errs
                    /\ astpc' = IF st.crashed THEN "crashed" ELSE "comments"
            IN  done(astGroup(WantedFuzzerFromCommentGroup(astDoc[1]),
                              [wanteds |-> astWanteds, errs |-> astErrs]))
       ELSE astpc' = "comments" /\ UNCHANGED <<astWanteds, astErrs>>
    /\ astIdx' = 1
    /\ UNCHANGED <<astDoc, astComments>>
    /\ UNCHANGED othersAST

\* One iteration of "for _, group := range theAST.Comments".
ASTComment ==
    /\ astpc = "comments"
    /\ astIdx <= Len(astComments)
    /\ LET done(st) ==
               /\ astWanteds' = st.wanteds
               /\ astErrs' = st.errs
               /\ astpc' = IF st.crashed THEN "crashed" ELSE "comments"
       IN  done(astGroup(WantedFuzzerFromCommentGroup(astComments[astIdx]),
                         [wanteds |-> astWanteds, errs |-> astErrs]))
    /\ astIdx' = astIdx + 1
    /\ UNCHANGED <<astDoc, astComments>>
    /\ UNCHANGED othersAST

\* "return wanteds, errs".
ASTReturn ==
    /\ astpc = "comments"
    /\ astIdx > Len(astComments)
    /\ astpc' = "returned"
    /\ UNCHANGED <<astDoc, astComments, astIdx, astWanteds, astErrs>>
    /\ UNCHANGED othersAST

NextAST == ASTDoc \/ ASTComment \/ ASTReturn

InitSpecAST ==
    InitAST /\ IdleType /\ IdleKC /\ IdleGroup /\ IdleRec /\ IdleCG /\ IdleTG
        /\ IdleVC /\ IdleNames /\ IdleRun /\ IdlePipe
        /\ IdleCmp
        /\ IdleUT
        /\ IdleStr

SpecAST == InitSpecAST /\ [][NextAST]_vars

\* A line of the group fails to parse: the scan of the group stops with an
\* error to report.
GroupFails(g) == WantedFuzzerFromCommentGroup(g).logErr

\* The fuzzers of the groups that do not fail, and one error for each group
\* that does, in the order of the groups.
RECURSIVE ExpectedWanteds(_, _)
ExpectedWanteds(groups, k) ==
    IF k > Len(groups) THEN <<>>
    ELSE (IF WantedFuzzerFromCommentGroup(groups[k]).err = NoErr
          THEN WantedFuzzerFromCommentGroup(groups[k]).fuzzers ELSE <<>>)
            \o ExpectedWanteds(groups, k + 1)

RECURSIVE ExpectedErrs(_, _)
ExpectedErrs(groups, k) ==
    IF k > Len(groups) THEN <<>>
    ELSE (IF GroupFails(groups[k])
          THEN <<WantedFuzzerFromCommentGroup(groups[k]).err>> ELSE <<>>)
            \o ExpectedErrs(groups, k + 1)

\* C19: a group with a line that fails to parse is scanned up to that line
\* and gives exactly one error and no wanted fuzzer; the fuzzers and errors
\* of the other groups are not affected.
C19_FailFastPerBlock ==
    astpc = "returned" =>
        /\ astWanteds = ExpectedWanteds(astComments, 1)
        /\ astErrs = ExpectedErrs(astComments, 1)

\* C19 for the files without a package comment.
C19_WithoutDoc == astDoc = <<>> => C19_FailFastPerBlock

\* The package comment of the file is a group whose second line fails, and
\* two errors were reported for it.
C19_DocTwice ==
    /\ astpc = "returned"
    /\ Len(astComments) = 1
    /\ astDoc = <<astComments[1]>>
    /\ astComments[1] = <<L_fuzz_A, L_gen_none>>
    /\ GroupFails(astComments[1])
    /\ Len(astErrs) = 2

(***************************************************************************)
(* A "@comparison:" line of a fuzzer definition, with any payload.         *)
(***************************************************************************)
MaxPayload == 4

CmpChars == {"T", "e", ":", " "}

InitCmp ==
    /\ cmpPayload \in StringsUpTo(CmpChars, MaxPayload)
    /\ cmpFuzzer = NewWantedFuzzer(S_A)
    /\ cmpErr = NoErr
    /\ cmppc = "start"

\* parseLine(line, &fuzzer) for the line "@comparison:" + payload.
CmpParseLine ==
    /\ cmppc = "start"
    /\ LET parsedLine(r) ==
               IF r.err = Panic
               THEN cmppc' = "panicked" /\ UNCHANGED <<cmpFuzzer, cmpErr>>
               ELSE IF r.err = NoReturn
               THEN cmppc' = "hung" /\ UNCHANGED <<cmpFuzzer, cmpErr>>
               ELSE /\ cmpFuzzer' = r.fuzzer
                    /\ cmpErr' = r.err
                    /\ cmppc' = "returned"
       IN  parsedLine(parseLine(TrimSpace(P_comparison \o cmpPayload), cmpFuzzer))
    /\ UNCHANGED cmpPayload
    /\ UNCHANGED othersCmp

NextCmp == CmpParseLine

InitSpecCmp ==
    InitCmp /\ IdleType /\ IdleKC /\ IdleGroup /\ IdleRec /\ IdleCG /\ IdleTG
        /\ IdleVC /\ IdleNames /\ IdleRun /\ IdlePipe /\ IdleAST
        /\ IdleUT
        /\ IdleStr

SpecCmp == InitSpecCmp /\ [][NextCmp]_vars

\* The two forms of a payload: Type ":" Name and Name Type, with names and
\* types of letters.
IsLetters(s) == s # <<>> /\ \A i \in DOMAIN s : s[i] \in {"T", "e"}
IsSpaces(s) == \A i \in DOMAIN s : s[i] = " "

IsMethodForm(p) ==
    \E k \in DOMAIN p :
        /\ p[k] = ":"
        /\ IsLetters(TrimSpace(SubSeq(p, 1, k - 1)))
        /\ IsLetters(TrimSpace(SubSeq(p, k + 1, Len(p))))

IsFunctionForm(p) ==
    \E k \in DOMAIN p : \E m \in DOMAIN p :
        /\ k < m
        /\ IsLetters(SubSeq(p, 1, k))
        /\ IsSpaces(SubSeq(p, k + 1, m - 1))
        /\ m - 1 > k
        /\ IsLetters(SubSeq(p, m, Len(p)))

\* C20: a "@comparison:" payload that is neither of the method form nor of
\* the function form makes the parse return an error: it does not crash
\* and no comparison is registered.
C20_BadPayloadIsError ==
    (cmppc # "start" /\ ~IsMethodForm(TrimSpace(cmpPayload))
        /\ ~IsFunctionForm(TrimSpace(cmpPayload))) =>
        /\ cmppc = "returned"
        /\ cmpErr # NoErr
        /\ cmpFuzzer.Comparison = <<>>

\* The parse of the lone type T panicked.
C20_Panicked == cmppc = "panicked" /\ cmpPayload = <<" ", "T">>

(***************************************************************************)
(* Lines of a group before its first "@fuzz interface:" line.              *)
(***************************************************************************)
IsStart(line) == matchPrefix(TrimSpace(line), P_fuzz_interface).ok

IsHarnessOnly(line) ==
    \E p \in {P_known_correct, P_comparison, P_generator, P_generator_state} :
        HasPrefix(TrimSpace(line), p)

NoStart(g) == \A i \in DOMAIN g : ~IsStart(g[i])

StrayDirective(g) ==
    \E i \in DOMAIN g :
        IsHarnessOnly(g[i]) /\ \A j \in 1..(i - 1) : ~IsStart(g[j])

FirstStart(g) ==
    IF NoStart(g) THEN Len(g) + 1
    ELSE CHOOSE i \in DOMAIN g : IsStart(g[i]) /\ \A j \in 1..(i - 1) : ~IsStart(g[j])

FromFirstStart(g) == SubSeq(g, FirstStart(g), Len(g))

\* C21 (as stated): a group without a "@fuzz interface:" line yields no
\* wanted fuzzer and no reported error, unless a "@known correct:",
\* "@comparison:", "@generator:" or "@generator state:" line stands before
\* any "@fuzz interface:" line: then the scan of the group reports an error.
C21_StrayDirectiveIsError ==
    gpc = "returned" =>
        /\ StrayDirective(group) => (groupErr # NoErr /\ logErr)
        /\ (NoStart(group) /\ ~StrayDirective(group)) =>
              (fuzzers = <<>> /\ ~logErr)

\* C21 (amended): every line before the first "@fuzz interface:" line is
\* ignored, a directive included: the scan of the group returns what the
\* scan of its lines from the first "@fuzz interface:" line on returns, and
\* a group without such a line yields no wanted fuzzer and no reported
\* error.
C21_StrayDirectiveIgnored ==
    gpc = "returned" =>
        /\ fuzzers = WantedFuzzerFromCommentGroup(FromFirstStart(group)).fuzzers
        /\ groupErr = WantedFuzzerFromCommentGroup(FromFirstStart(group)).err
        /\ logErr = WantedFuzzerFromCommentGroup(FromFirstStart(group)).logErr
        /\ NoStart(group) => (fuzzers = <<>> /\ ~logErr)

\* The scan of a group of directives without a "@fuzz interface:" line has
\* returned.
C21_Witness ==
    /\ gpc = "returned"
    /\ NoStart(group)
    /\ StrayDirective(group)
    /\ Len(group) = 2

\* C22: a "@known correct:" payload without a function name (only "&", or
\* types with no leading name) is rejected with an error: parseKnownCorrect
\* never returns a function with an empty name and no error.
C22_NameRequired ==
    (kcpc = "done" /\ kcErr = NoErr) => kcName # <<>>

\* The payload "&" was parsed to the end.
C22_OnlyAmpersand == kcpc = "done" /\ kcLine = <<"&">>

(***************************************************************************)
(* parseType on the rendering of a unary type (array, chan or pointer,     *)
(* its operand in parentheses) followed by further input.                  *)
(***************************************************************************)
WrapUnary(S) ==
    {ArrayType(t) : t \in S} \cup {ChanType(t) : t \in S}
        \cup {PointerType(t) : t \in S}

UTOperands ==
    {BasicType(S_int), BasicType(S_T)}
        \cup WrapUnary({BasicType(S_int), BasicType(S_T)})

UTTypes == WrapUnary(UTOperands)

UTTails ==
    {<<" ">> \o S_int,
     <<" ", "(", "T", ")">>,
     <<" ", "*", "(", "T", ")">>,
     <<" ", "[", "]", "(", "i", "n", "t", ")">>,
     <<" ", " ", "T">>}

InitUT ==
    /\ utType \in UTTypes
    /\ utTail \in UTTails
    /\ utParsed = NoResult
    /\ utpc = "start"

\* parseType(s) for s the rendering of utType followed by utTail.
UTParse ==
    /\ utpc = "start"
    /\ utParsed' = parseType(ToString(utType) \o utTail)
    /\ utpc' = "parsed"
    /\ UNCHANGED <<utType, utTail>>
    /\ UNCHANGED othersUT

NextUT == UTParse

InitSpecUT ==
    InitUT /\ IdleType /\ IdleKC /\ IdleGroup /\ IdleRec /\ IdleCG /\ IdleTG
        /\ IdleVC /\ IdleNames /\ IdleRun /\ IdlePipe /\ IdleAST /\ IdleCmp
        /\ IdleStr

SpecUT == InitSpecUT /\ [][NextUT]_vars

\* C23: for a well-nested parenthesised unary type followed by further
\* input, parseType reads up to the parenthesis that closes its own operand:
\* it returns the type, no error, and the rest of the line (without its
\* leading spaces) as the remainder.
C23_StopsAtOwnParenthesis ==
    utpc = "parsed" =>
        /\ utParsed.err = NoErr
        /\ utParsed.ty = utType
        /\ utParsed.rest \in {utTail, TrimLeftSpace(utTail)}

\* "[](int) int" was parsed.
C23_ArrayThenName ==
    /\ utpc = "parsed"
    /\ utType = ArrayType(BasicType(S_int))
    /\ utTail = <<" ">> \o S_int

\* "*(T) (T)" was parsed.
C23_PointerThenParens ==
    /\ utpc = "parsed"
    /\ utType = PointerType(BasicType(S_T))
    /\ utTail = <<" ", "(", "T", ")">>

(***************************************************************************)
(* The rendering of a type as a key of the Generator and Comparison maps.  *)
(***************************************************************************)
S_chan == <<"c", "h", "a", "n">>
S_map == <<"m", "a", "p">>

\* Types to compare a rendered type with: two levels of constructors over
\* the leaf types and over the basic types named chan and map.
OtherTypes ==
    WrapTypes(WrapTypes(LeafTypes \cup {BasicType(S_chan), BasicType(S_map)}))

\* C24: the rendering is injective: a type of another structure than the
\* rendered type has another rendering, so the map key of one type is never
\* the key of another.
C24_RenderInjective ==
    tpc = "rendered" =>
        \A other \in OtherTypes : ToString(other) = rendered => other = tyIn

\* A map type with an array value was rendered.
C24_Witness ==
    /\ tpc = "rendered"
    /\ tyIn = MapType(BasicType(S_T), ArrayType(BasicType(S_chans)))
    /\ rendered = <<"m", "a", "p", "[", "T", "]", "(", "[", "]", "(">>
                      \o S_chans \o <<")", ")">>

(***************************************************************************)
(* The order of the wanted fuzzers, the fuzzers and the errors.            *)
(***************************************************************************)
RECURSIVE WantedNames(_, _)
WantedNames(ws, i) ==
    IF i > Len(ws) THEN <<>> ELSE <<ws[i].InterfaceName>> \o WantedNames(ws, i + 1)

\* The names of a list without the later occurrences of a name.
RECURSIVE FirstOccurrences(_, _)
FirstOccurrences(names, i) ==
    IF i > Len(names) THEN <<>>
    ELSE (IF \E j \in 1..(i - 1) : names[j] = names[i] THEN <<>> ELSE <<names[i]>>)
            \o FirstOccurrences(names, i + 1)

\* C25: the fuzzers and the errors come out in the order in which the
\* "@fuzz interface:" lines were met in the file: the names of the wanted
\* fuzzers that WantedFuzzersFromAST returns are, in their order of first
\* occurrence, the names that start a fuzzer in the comment groups of the
\* file, in the order of the groups and of their lines.
C25_OrderOfDirectives ==
    astpc = "returned" =>
        FirstOccurrences(WantedNames(astWanteds, 1), 1)
            = FirstOccurrences(WantedNames(ExpectedWanteds(astComments, 1), 1), 1)

\* C25 for the files without a package comment.
C25_WithoutDoc == astDoc = <<>> => C25_OrderOfDirectives

\* The package comment is the second group of the file and starts a fuzzer
\* for B, the first group starts one for A: B comes out first.
C25_DocFirst ==
    /\ astpc = "returned"
    /\ Len(astComments) = 2
    /\ astDoc = <<astComments[2]>>
    /\ WantedNames(astWanteds, 1) = <<S_B, S_A, S_B>>

\* reconcileFuzzers keeps the order of the wanted fuzzers: the fuzzers are
\* those of the wanted fuzzers with an interface of their name, and the
\* errors of missing interfaces are those of the others, both in the order
\* of the wanted fuzzers.
RECURSIVE MatchesOf(_, _, _)
MatchesOf(ifaces, name, i) ==
    IF i > Len(ifaces) THEN <<>>
    ELSE (IF ifaces[i].Name = name THEN <<name>> ELSE <<>>)
            \o MatchesOf(ifaces, name, i + 1)

RECURSIVE FoundNames(_, _, _)
FoundNames(ifaces, ws, i) ==
    IF i > Len(ws) THEN <<>>
    ELSE MatchesOf(ifaces, ws[i].InterfaceName, 1) \o FoundNames(ifaces, ws, i + 1)

RECURSIVE MissingErrs(_, _, _)
MissingErrs(ifaces, ws, i) ==
    IF i > Len(ws) THEN <<>>
    ELSE (IF MatchesOf(ifaces, ws[i].InterfaceName, 1) = <<>>
          THEN <<ErrNotFound(ws[i].InterfaceName)>> ELSE <<>>)
            \o MissingErrs(ifaces, ws, i + 1)

RECURSIVE FuzzerNames(_, _)
FuzzerNames(fs, i) ==
    IF i > Len(fs) THEN <<>> ELSE <<fs[i].Interface.Name>> \o FuzzerNames(fs, i + 1)

C25_ReconcileInOrder ==
    rpc = "done" =>
        /\ FuzzerNames(recFuzzers, 1) = FoundNames(interfaces, wanteds, 1)
        /\ SelectSeq(recErrs, LAMBDA e : \E n \in InterfaceNames : e = ErrNotFound(n))
               = MissingErrs(interfaces, wanteds, 1)

(***************************************************************************)
(* matchPrefix on a prefix followed by a suffix, and matchDelims on a      *)
(* string between numL "(" and numR ")".                                   *)
(***************************************************************************)
MaxStr == 2
MaxDelims == 2

StrChars == {"a", " ", "(", ")"}

RECURSIVE makeFixedString(_, _)
makeFixedString(s, n) == IF n = 0 THEN <<>> ELSE s \o makeFixedString(s, n - 1)

InitStr ==
    /\ strPref \in StringsUpTo(StrChars, MaxStr)
    /\ strSuff \in StringsUpTo(StrChars, MaxStr)
    /\ numL \in 0..MaxDelims
    /\ numR \in 0..MaxDelims
    /\ strOut = <<>>
    /\ strOk = FALSE
    /\ spc = "start"

\* matchPrefix(pref + suff, pref).
StrMatchPrefix ==
    /\ spc = "start"
    /\ LET matched(m) == strOut' = m.rest /\ strOk' = m.ok
       IN  matched(matchPrefix(strPref \o strSuff, strPref))
    /\ spc' = "prefix"
    /\ UNCHANGED <<strPref, strSuff, numL, numR>>
    /\ UNCHANGED othersStr

\* matchDelims(numL "(" + suff + numR ")", "(", ")").
StrMatchDelims ==
    /\ spc = "start"
    /\ LET matched(d) == strOut' = d.s /\ strOk' = d.ok
       IN  matched(matchDelims(makeFixedString(<<"(">>, numL) \o strSuff
                                   \o makeFixedString(<<")">>, numR),
                               <<"(">>, <<")">>))
    /\ spc' = "delims"
    /\ UNCHANGED <<strPref, strSuff, numL, numR>>
    /\ UNCHANGED othersStr

NextStr == StrMatchPrefix \/ StrMatchDelims

InitSpecStr ==
    InitStr /\ IdleType /\ IdleKC /\ IdleGroup /\ IdleRec /\ IdleCG /\ IdleTG
        /\ IdleVC /\ IdleNames /\ IdleRun /\ IdlePipe /\ IdleAST /\ IdleCmp
        /\ IdleUT

SpecStr == InitSpecStr /\ [][NextStr]_vars

\* C26: matchPrefix(pref + suff, pref) reports a match and returns exactly
\* suff, also when suff begins with white space.
C26_PrefixRemoved ==
    spc = "prefix" => (strOk /\ strOut = strSuff)

\* C26 for the suffixes that do not begin with white space.
C26_NoLeadingSpace ==
    (spc = "prefix" /\ (strSuff = <<>> \/ ~IsSpace(strSuff[1]))) =>
        (strOk /\ strOut = strSuff)

\* matchPrefix has returned for a suffix that begins with white space.
C26_LeadingSpace == spc = "prefix" /\ strSuff = <<" ", "a">>

\* C27: for inner neither beginning with "(" nor ending with ")",
\* matchDelims on numL "(" + inner + numR ")" returns inner, and reports
\* the delimiters balanced exactly when numL = numR.
C27_DelimsRemoved ==
    (/\ spc = "delims"
     /\ ~HasPrefix(strSuff, <<"(">>)
     /\ ~HasSuffix(strSuff, <<")">>)) =>
        /\ strOut = strSuff
        /\ strOk <=> (numL = numR)

\* matchDelims has returned for "((" + ")a" + "))".
C27_Witness ==
    /\ spc = "delims"
    /\ strSuff = <<")", "a">>
    /\ numL = 2
    /\ numR = 2
    /\ strOk

(***************************************************************************)
(* The variable state in the text of a generated routine.                  *)
(***************************************************************************)
RECURSIVE UsesState(_)
UsesState(text) ==
    \E i \in DOMAIN text :
        IF "body" \in DOMAIN text[i] THEN UsesState(text[i].body)
        ELSE "lit" \in DOMAIN text[i] /\ text[i].lit \in {", state = ", "(rand, state)"}

RECURSIVE DeclaresState(_)
DeclaresState(text) ==
    \E i \in DOMAIN text :
        IF "body" \in DOMAIN text[i] THEN DeclaresState(text[i].body)
        ELSE /\ "lit" \in DOMAIN text[i]
             /\ text[i].lit = "\n\n\t// Create initial state\n\tstate := "

\* C28: a generated routine that uses the variable state declares it: for
\* every fuzzer whose code was printed, the text of Fuzz<Name> has no use of
\* state without a declaration of it.
C28_StateDeclared ==
    PipePrinted =>
        \A f \in DOMAIN pipeFuzzers :
            (/\ CodegenWithDefaultReference(pipeFuzzers[f]).err = nil
             /\ UsesState(CodegenWithDefaultReference(pipeFuzzers[f]).code))
                => DeclaresState(CodegenWithDefaultReference(pipeFuzzers[f]).code)

\* The same for Fuzz<Name>With.
C28_WithReference ==
    PipePrinted =>
        \A f \in DOMAIN pipeFuzzers :
            (/\ CodegenWithReference(pipeFuzzers[f]).err = nil
             /\ UsesState(CodegenWithReference(pipeFuzzers[f]).code))
                => DeclaresState(CodegenWithReference(pipeFuzzers[f]).code)

\* Code was printed for a harness whose reference constructor has a
\* parameter of a type with a stateful generator, and Fuzz<Name>With
\* declares state.
C28_StatefulConstructor ==
    /\ ppc = "printed"
    /\ DrvFuzzer.Wanted.Reference.Parameters = <<BasicType(S_T)>>
    /\ DrvFuzzer.Wanted.Generator[S_T].IsStateful
    /\ DeclaresState(CodegenWithReference(DrvFuzzer).code)

\* C29: the two names that Fuzz<Name> passes to Fuzz<Name>With, expected
\* and actual followed by the name of the interface, are the names declared
\* for the results of the reference constructor and of makeTest, whatever
\* the name of the interface.
C29_PassedAreDeclared ==
    (PipePrinted /\ HasKnownCorrect(pipeGroup)) =>
        \A f \in DOMAIN pipeFuzzers :
            /\ FuncExpectedNames(pipeFuzzers[f].Wanted.Reference)
                  = <<S_expected \o pipeFuzzers[f].Interface.Name>>
            /\ FuncActualNames(pipeFuzzers[f].Wanted.Reference)
                  = <<S_actual \o pipeFuzzers[f].Interface.Name>>

\* C29 for the interface A alone.
C29_ForA == pipeInterfaces[1].Name = S_A => C29_PassedAreDeclared

\* Code was printed for the interface A2 with a reference constructor: the
\* result is declared as expectedA and passed as expectedA2.
C29_Digit ==
    /\ ppc = "printed"
    /\ HasKnownCorrect(pipeGroup)
    /\ DrvFuzzer.Interface.Name = S_A2
    /\ FuncExpectedNames(DrvFuzzer.Wanted.Reference) = <<S_expected \o S_A>>

\* C30: the generated Fuzz<Name>With never draws a method index from an
\* empty range: for every fuzzer whose code was generated, an interface
\* without methods included, when the loop is about to draw an index the
\* interface has a method, and no run panics.
C30_NoEmptyRange ==
    /\ (runpc = "loop" /\ runI < maxops) =>
          Len(runFuzzer.Interface.Functions) > 0
    /\ runpc # "panicked"

\* C30 for the runs with maxops = 0.
C30_NoIteration == maxops = 0 => C30_NoEmptyRange

\* Code was generated for an interface without methods, and its routine is
\* about to draw an index from the empty range.
C30_EmptyInterface ==
    /\ runpc = "loop"
    /\ maxops > 0
    /\ runFuzzer.Interface.Functions = <<>>
    /\ CodegenWithReference(runFuzzer).err = nil

====
